---- MODULE Spec2Model ----
(***************************************************************************)
(* Model of deepali's loss library (src/deepali/losses/functional.py).     *)
(*                                                                         *)
(* Numbers are exact rationals <<n, d>> (d > 0, lowest terms); a division  *)
(* by zero yields the IEEE specials <<1,0>> (inf), <<-1,0>> (-inf) and     *)
(* <<0,0>> (nan).  A tensor is a record [shape, data] with row-major data; *)
(* a 0-dimensional tensor has shape <<>> and one element.                  *)
(***************************************************************************)
EXTENDS Integers, Sequences, FiniteSets, TLC

VARIABLES heap, last

vars == <<heap, last>>

(***************************************************************************)
(* Bounds of the model.                                                    *)
(***************************************************************************)
MaxVal == 2       \* largest element of a caller's image tensor
MaxMask == 2      \* largest element of a caller's mask tensor
MaxDeriv == 2     \* largest spatial derivative of a caller's vector field

(***************************************************************************)
(* Scalar arithmetic of the tensor runtime.                                *)
(***************************************************************************)
Abs(x) == IF x < 0 THEN -x ELSE x

Sign(x) == IF x < 0 THEN -1 ELSE IF x > 0 THEN 1 ELSE 0

RECURSIVE GCD(_, _)
GCD(a, b) == IF b = 0 THEN a ELSE GCD(b, a % b)

Rat(n, d) ==
    IF d = 0 THEN <<Sign(n), 0>>
    ELSE LET g == GCD(Abs(n), Abs(d))
             s == IF d < 0 THEN -1 ELSE 1
         IN  <<(s * n) \div g, (s * d) \div g>>

Num(i) == <<i, 1>>

NaN == <<0, 0>>

\* A real number that is no rational (an inexact root); followed no further.
Surd == <<0, -1>>

IsFinite(a) == a[2] # 0

RAdd(a, b) ==
    IF a = Surd \/ b = Surd THEN Surd
    ELSE IF IsFinite(a) /\ IsFinite(b) THEN Rat(a[1] * b[2] + b[1] * a[2], a[2] * b[2])
    ELSE IF a = NaN \/ b = NaN THEN NaN
    ELSE IF ~IsFinite(a) /\ ~IsFinite(b) THEN (IF a = b THEN a ELSE NaN)
    ELSE IF IsFinite(a) THEN b ELSE a

RMul(a, b) ==
    IF a = Surd \/ b = Surd THEN Surd
    ELSE IF IsFinite(a) /\ IsFinite(b) THEN Rat(a[1] * b[1], a[2] * b[2])
    ELSE IF a = NaN \/ b = NaN \/ a[1] = 0 \/ b[1] = 0 THEN NaN
    ELSE <<Sign(a[1]) * Sign(b[1]), 0>>

RSub(a, b) == RAdd(a, RMul(Num(-1), b))

RDiv(a, b) ==
    IF a = Surd \/ b = Surd THEN Surd
    ELSE IF a = NaN \/ b = NaN THEN NaN
    ELSE IF ~IsFinite(a) THEN (IF ~IsFinite(b) THEN NaN
                               ELSE IF b[1] < 0 THEN <<-a[1], 0>> ELSE a)
    ELSE IF ~IsFinite(b) THEN Num(0)
    ELSE Rat(a[1] * b[2], a[2] * b[1])

RAbs(a) == IF a = Surd THEN Surd ELSE <<Abs(a[1]), a[2]>>

RECURSIVE IPow(_, _)
IPow(x, n) == IF n = 0 THEN 1 ELSE x * IPow(x, n - 1)

\* The b-th root of the natural number n when it is a natural number, else -1.
IRoot(n, b) ==
    IF \E r \in 0..n : IPow(r, b) = n THEN CHOOSE r \in 0..n : IPow(r, b) = n ELSE -1

\* x ** q for a finite rational x and a rational exponent q = a/b (torch.pow).
RPow(x, q) ==
    IF x = Surd THEN Surd
    ELSE IF q[1] = 0 THEN Num(1)
    ELSE IF x = NaN THEN NaN
    ELSE IF ~IsFinite(x) THEN (IF q[1] < 0 THEN Num(0) ELSE <<1, 0>>)
    ELSE IF x[1] = 0 THEN (IF q[1] > 0 THEN Num(0) ELSE <<1, 0>>)
    ELSE IF x[1] < 0 /\ q[2] # 1 THEN NaN
    ELSE LET rn == IRoot(Abs(x[1]), q[2])
             rd == IRoot(x[2], q[2])
             e == Abs(q[1])
             sgn == IF x[1] < 0 /\ e % 2 = 1 THEN -1 ELSE 1
         IN  IF rn < 0 \/ rd < 0 THEN Surd
             ELSE IF q[1] > 0 THEN Rat(sgn * IPow(rn, e), IPow(rd, e))
             ELSE Rat(sgn * IPow(rd, e), IPow(rn, e))

RGreater(a, b) ==
    IF a = NaN \/ b = NaN THEN FALSE
    ELSE IF ~IsFinite(a) \/ ~IsFinite(b)
         THEN (IF a = b THEN FALSE
               ELSE IF ~IsFinite(a) THEN a[1] > 0 ELSE b[1] < 0)
    ELSE a[1] * b[2] > b[1] * a[2]

(***************************************************************************)
(* Tensors.                                                                *)
(***************************************************************************)
RECURSIVE Prod(_)
Prod(s) == IF s = <<>> THEN 1 ELSE Head(s) * Prod(Tail(s))

\* (data \o <<>> stores the elements as a tuple of computed values.)
Tensor(shape, data) == [shape |-> shape, data |-> data \o <<>>]

Scalar(v) == Tensor(<<>>, <<v>>)

\* Python's None and an object that is not a Tensor (e.g. a list).
None == Tensor(<<0>>, <<>>)

NotATensor == Tensor(<<-1>>, <<>>)

numel(t) == Len(t.data)

RECURSIVE SumSeq(_)
SumSeq(s) == IF s = <<>> THEN Num(0) ELSE RAdd(Head(s), SumSeq(Tail(s)))

tsum(t) == Scalar(SumSeq(t.data))

tmean(t) == Scalar(RDiv(SumSeq(t.data), Num(numel(t))))

tsub(a, b) == Tensor(a.shape, [i \in 1..Len(a.data) |-> RSub(a.data[i], b.data[i])])

tmul(a, b) == Tensor(a.shape, [i \in 1..Len(a.data) |-> RMul(a.data[i], b.data[i])])

tdiv(t, v) == Tensor(t.shape, [i \in 1..Len(t.data) |-> RDiv(t.data[i], v)])

tdivt(a, b) == Tensor(a.shape, [i \in 1..Len(a.data) |-> RDiv(a.data[i], b.data[i])])

tadds(t, v) == Tensor(t.shape, [i \in 1..Len(t.data) |-> RAdd(t.data[i], v)])

tmuls(t, v) == Tensor(t.shape, [i \in 1..Len(t.data) |-> RMul(t.data[i], v)])

square(t) == tmul(t, t)

tadd(a, b) == Tensor(a.shape, [i \in 1..Len(a.data) |-> RAdd(a.data[i], b.data[i])])

tabs(t) == Tensor(t.shape, [i \in 1..Len(t.data) |-> RAbs(t.data[i])])

tpow(t, q) == Tensor(t.shape, [i \in 1..Len(t.data) |-> RPow(t.data[i], q)])

zeros(shape) == Tensor(shape, [i \in 1..Prod(shape) |-> Num(0)])

\* Sum over the last axis of the derivatives stacked along a new last axis.
RECURSIVE SumTensors(_)
SumTensors(ts) ==
    IF Len(ts) = 1 THEN ts[1] ELSE tadd(ts[1], SumTensors(Tail(ts)))

\* Broadcasting of a rank-3 tensor to a rank-3 shape.
CanExpand(t, shape) ==
    /\ Len(t.shape) = Len(shape)
    /\ \A k \in 1..Len(shape) : t.shape[k] = 1 \/ t.shape[k] = shape[k]

expand_as(t, shape) ==
    LET C == shape[2]
        X == shape[3]
        src(i) == LET n == (i - 1) \div (C * X)
                      c == ((i - 1) \div X) % C
                      x == (i - 1) % X
                      mn == IF t.shape[1] = 1 THEN 0 ELSE n
                      mc == IF t.shape[2] = 1 THEN 0 ELSE c
                      mx == IF t.shape[3] = 1 THEN 0 ELSE x
                  IN  (mn * t.shape[2] + mc) * t.shape[3] + mx + 1
    IN  Tensor(shape, [i \in 1..Prod(shape) |-> t.data[src(i)]])

(***************************************************************************)
(* Outcome of a call: the exception raised ("none" when it returned), the  *)
(* returned tensor, whether the returned object is the very tensor that    *)
(* was passed as first argument (self), whether the storage of the first   *)
(* argument was overwritten (wrote) and with what (stored), and the        *)
(* computation steps that were carried out before the call ended.  why    *)
(* names the argument an exception is about.                               *)
(***************************************************************************)
Raise(kind, why, steps, arg) ==
    [err |-> kind, why |-> why, out |-> None, self |-> FALSE, wrote |-> FALSE,
     stored |-> arg, steps |-> steps]

Return(out, self, wrote, stored, steps) ==
    [err |-> "none", why |-> "", out |-> out, self |-> self, wrote |-> wrote,
     stored |-> stored, steps |-> steps]

(***************************************************************************)
(* masked_loss(loss, mask, name)                                           *)
(***************************************************************************)
\* A variant of masked_loss that multiplies without checking the mask first and
\* fails where the multiplication does.
masked_loss_unchecked(loss, mask) ==
    IF mask = None THEN Return(loss, TRUE, FALSE, loss, <<>>)
    ELSE IF mask = NotATensor \/ ~CanExpand(mask, loss.shape)
         THEN Raise("RuntimeError", "mask", <<"mask">>, loss)
    ELSE LET prod == tmul(loss, expand_as(mask, loss.shape))
         IN  Return(prod, TRUE, TRUE, prod, <<"mask">>)

masked_loss(loss, mask) ==
    IF mask = None THEN Return(loss, TRUE, FALSE, loss, <<>>)
    ELSE IF mask = NotATensor THEN Raise("TypeError", "mask", <<>>, loss)
    ELSE IF mask.shape[1] # 1 /\ mask.shape[1] # loss.shape[1]
         THEN Raise("ValueError", "mask", <<>>, loss)
    ELSE IF mask.shape[2] # 1 /\ mask.shape[2] # loss.shape[1]
         THEN Raise("ValueError", "mask", <<>>, loss)
    ELSE IF SubSeq(mask.shape, 3, Len(mask.shape)) # SubSeq(loss.shape, 3, Len(loss.shape))
         THEN Raise("ValueError", "mask", <<>>, loss)
    ELSE IF ~CanExpand(mask, loss.shape) THEN Raise("RuntimeError", "mask", <<>>, loss)
    ELSE LET prod == tmul(loss, expand_as(mask, loss.shape))
         IN  Return(prod, TRUE, TRUE, prod, <<"mask">>)

(***************************************************************************)
(* reduce_loss(loss, reduction, mask)                                      *)
(***************************************************************************)
\* A variant of mask_numel that counts the nonzero entries of the broadcast mask
\* instead of adding up its values.
mask_numel_nonzero(mask, loss) ==
    Scalar(Num(Cardinality({i \in 1..Prod(loss.shape) :
                               expand_as(mask, loss.shape).data[i] # Num(0)})))

mask_numel(mask, loss) == tsum(expand_as(mask, loss.shape))

\* A variant of unmasked_reduce with the two branches swapped.
unmasked_reduce_swapped(loss, reduction) ==
    IF reduction = "mean" THEN tsum(loss) ELSE tmean(loss)

\* loss.mean() if reduction == "mean" else loss.sum()
unmasked_reduce(loss, reduction) ==
    IF reduction = "mean" THEN tmean(loss) ELSE tsum(loss)

reduce_loss(loss, reduction, mask) ==
    IF reduction \notin {"mean", "sum", "none"} THEN Raise("ValueError", "reduction", <<>>, loss)
    ELSE IF reduction = "none" THEN Return(loss, TRUE, FALSE, loss, <<>>)
    ELSE IF mask = None
         THEN Return(unmasked_reduce(loss, reduction), FALSE, FALSE, loss, <<"reduce">>)
    ELSE LET value == tsum(loss)
         IN  IF reduction = "mean"
             THEN IF mask = NotATensor THEN Raise("AttributeError", "mask", <<"sum">>, loss)
                  ELSE IF ~CanExpand(mask, loss.shape)
                       THEN Raise("RuntimeError", "mask", <<"sum">>, loss)
                  ELSE Return(tdiv(value, mask_numel(mask, loss).data[1]),
                              FALSE, FALSE, loss, <<"reduce">>)
             ELSE Return(value, FALSE, FALSE, loss, <<"reduce">>)

(***************************************************************************)
(* ssd_loss(input, target, mask, norm, reduction) and mse_loss.            *)
(***************************************************************************)
\* A variant of sub that subtracts in place (input.sub_(target)): the
\* difference lives in the storage of input.
sub_inplace(input, target) == [out |-> tsub(input, target), alias |-> "input"]

\* input.sub(target): out of place, the difference owns its storage.
sub(input, target) == [out |-> tsub(input, target), alias |-> "fresh"]

RECURSIVE DropOnes(_)
DropOnes(s) ==
    IF s = <<>> THEN <<>>
    ELSE IF Head(s) = 1 THEN DropOnes(Tail(s)) ELSE <<Head(s)>> \o DropOnes(Tail(s))

\* A variant of squeeze that keeps the dimensions of size 1.
squeeze_none(t) == t

squeeze(t) == Tensor(DropOnes(t.shape), t.data)

ssd_loss(input, target, mask, norm, reduction) ==
    IF input = NotATensor \/ target = NotATensor
    THEN Raise("TypeError", "input", <<>>, input)
    ELSE IF input.shape # target.shape THEN Raise("ValueError", "input", <<>>, input)
    ELSE
    LET d == sub(input, target)
        own == d.alias = "fresh"
        sq == square(d.out)
        m == masked_loss(sq, mask)
        r == reduce_loss(m.out, reduction, mask)
        n == squeeze(norm)
        divide == norm # None /\ RGreater(n.data[1], Num(0))
        final == IF divide THEN tdiv(r.out, n.data[1]) ELSE r.out
        steps == <<"square">> \o m.steps \o r.steps
    IN  IF m.err # "none"
        THEN [err |-> m.err, why |-> m.why, out |-> None, self |-> FALSE, wrote |-> ~own,
              stored |-> IF own THEN input ELSE sq, steps |-> <<"square">>]
        ELSE IF r.err # "none"
        THEN [err |-> r.err, why |-> r.why, out |-> None, self |-> FALSE, wrote |-> ~own,
              stored |-> IF own THEN input ELSE m.out,
              steps |-> <<"square">> \o m.steps \o r.steps]
        ELSE IF norm # None /\ n.shape # <<>>
        THEN [err |-> "ValueError", why |-> "norm", out |-> None, self |-> FALSE, wrote |-> ~own,
              stored |-> IF own THEN input ELSE m.out, steps |-> steps]
        ELSE Return(final, ~own /\ r.self, ~own,
                    IF own THEN input ELSE IF r.self THEN final ELSE m.out,
                    IF divide THEN steps \o <<"norm">> ELSE steps)

ssd_loss_default_reduction == "sum"

mse_loss_default_reduction == "mean"

mse_loss(input, target, mask, norm, reduction) ==
    ssd_loss(input, target, mask, norm, reduction)

(***************************************************************************)
(* lcc_loss(input, target, mask, kernel_size, epsilon, reduction)          *)
(***************************************************************************)
\* avg_pool(data, kernel_size, stride=1, padding=None, count_include_pad=False)
\* along the one spatial axis of an (N, C, X) tensor: the box filter of odd
\* size k, averaging over the window's in-bounds points only.
avg_pool(t, k) ==
    LET X == t.shape[3]
        h == k \div 2
        win(i) == LET x == (i - 1) % X
                      base == i - x
                      lo == IF x - h < 0 THEN 0 ELSE x - h
                      hi == IF x + h > X - 1 THEN X - 1 ELSE x + h
                  IN  [j \in 1..(hi - lo + 1) |-> t.data[base + lo + j - 1]]
    IN  Tensor(t.shape, [i \in 1..Len(t.data) |->
                            RDiv(SumSeq(win(i)), Num(Len(win(i))))])

lcc_loss(input, target, mask, kernel_size, epsilon, reduction) ==
    IF input = NotATensor \/ target = NotATensor
    THEN Raise("TypeError", "input", <<>>, input)
    ELSE IF input.shape # target.shape THEN Raise("ValueError", "input", <<>>, input)
    ELSE
    LET x == tsub(input, avg_pool(input, kernel_size))
        y == tsub(target, avg_pool(target, kernel_size))
        a == avg_pool(tmul(x, y), kernel_size)
        b == avg_pool(square(x), kernel_size)
        c == avg_pool(square(y), kernel_size)
        lcc == tdivt(square(a), tadds(tmul(b, c), epsilon))
        loss == tadds(tmuls(lcc, Num(-1)), Num(1))
        m == masked_loss(loss, mask)
        r == reduce_loss(m.out, reduction, mask)
    IN  IF m.err # "none" THEN Raise(m.err, m.why, <<"lcc">>, input)
        ELSE IF r.err # "none"
        THEN Raise(r.err, r.why, <<"lcc">> \o m.steps \o r.steps, input)
        ELSE Return(r.out, FALSE, FALSE, input, <<"lcc">> \o m.steps \o r.steps)

(***************************************************************************)
(* dice_score(input, target, weight, epsilon, reduction)                   *)
(***************************************************************************)
\* A positive Python float below 2^-150, half the smallest positive
\* single-precision number, such as 1e-50.
Underflow == <<0, -4>>

\* The single-precision value of a number: 0 for Underflow.  Every other
\* number of the callers below is a dyadic rational with a small numerator and
\* is its own single-precision value.
float32(v) == IF v = Underflow THEN Num(0) ELSE v

\* input.float()
float(t) == Tensor(t.shape, [i \in 1..Len(t.data) |-> float32(t.data[i])])

\* dot_channels(a, b, weight): the sum over the spatial points of a * b, times
\* weight if given, for each batch and channel; a tensor of shape (N, C).
dot_channels(a, b, weight) ==
    LET X == Prod(SubSeq(a.shape, 3, Len(a.shape)))
        ab == IF weight = None THEN tmul(a, b) ELSE tmul(tmul(a, b), weight)
    IN  Tensor(<<a.shape[1], a.shape[2]>>,
               [k \in 1..(a.shape[1] * a.shape[2]) |->
                   SumSeq([x \in 1..X |-> ab.data[(k - 1) * X + x]])])

\* A variant of dice_ratio with epsilon in the denominator only.
dice_ratio_plain(intersection, denominator, epsilon) ==
    tdivt(tmuls(intersection, Num(2)), tadds(denominator, float32(epsilon)))

\* intersection.mul_(2).add_(epsilon).div(denominator.add_(epsilon)), on
\* single-precision tensors.
dice_ratio(intersection, denominator, epsilon) ==
    tdivt(tadds(tmuls(intersection, Num(2)), float32(epsilon)),
          tadds(denominator, float32(epsilon)))

dice_score(input, target, weight, epsilon, reduction) ==
    IF input = NotATensor \/ target = NotATensor
    THEN Raise("TypeError", "input", <<>>, input)
    ELSE IF Len(input.shape) < 3 THEN Raise("ValueError", "input", <<>>, input)
    ELSE IF input.shape # target.shape THEN Raise("ValueError", "input", <<>>, input)
    ELSE
    LET y_pred == float(input)
        y == float(target)
        intersection == dot_channels(y_pred, y, weight)
        denominator == tadd(dot_channels(y_pred, y_pred, weight),
                            dot_channels(y, y, weight))
        loss == dice_ratio(intersection, denominator, epsilon)
        r == reduce_loss(loss, reduction, None)
    IN  IF r.err # "none" THEN Raise(r.err, r.why, <<"dice">>, input)
        ELSE Return(r.out, FALSE, FALSE, input, <<"dice">> \o r.steps)

(***************************************************************************)
(* Derivative keys (SpatialDerivativeKeys): a key is the sequence of the   *)
(* axes it differentiates along, <<1>> = "x", <<1, 2>> = "xy".             *)
(***************************************************************************)
keys_all(ndim, order) ==
    IF order = 1 THEN [a \in 1..ndim |-> <<a>>]
    ELSE [i \in 1..(ndim * ndim) |-> <<(i - 1) \div ndim + 1, ((i - 1) % ndim) + 1>>]

keys_unmixed(ndim, order) ==
    [a \in 1..ndim |-> [j \in 1..order |-> a]]

is_mixed(key) == \E i, j \in 1..Len(key) : key[i] # key[j]

SortKey(key) ==
    IF Len(key) = 2 /\ key[1] > key[2] THEN <<key[2], key[1]>> ELSE key

RECURSIVE Dedup(_, _)
Dedup(keys, seen) ==
    IF keys = <<>> THEN <<>>
    ELSE LET k == SortKey(Head(keys))
         IN  IF k \in seen THEN Dedup(Tail(keys), seen)
             ELSE <<k>> \o Dedup(Tail(keys), seen \cup {k})

keys_unique(keys) == Dedup(keys, {})

(***************************************************************************)
(* A field u is given by its shape and by what the derivative primitive    *)
(* returns for it: u.jet[key][c] is the derivative `key` of channel c,     *)
(* the same at every grid point (a field that is a polynomial of degree    *)
(* u.order in the coordinates); u.order = 0 where no derivative is taken.  *)
(***************************************************************************)
channel(shape, i) == (((i - 1) \div Prod(SubSeq(shape, 3, Len(shape)))) % shape[2]) + 1

spatial_derivatives(u, which) ==
    [k \in 1..Len(which) |->
        Tensor(u.shape, [i \in 1..Prod(u.shape) |->
                            Num(u.jet[SortKey(which[k])][channel(u.shape, i)])])]

\* Python's None and an omitted argument, where a number is expected.
PyNone == <<0, -2>>

Omitted == <<0, -3>>

\* A variant of LinearField that returns zero for every reduction.
LinearField_zero(u, reduction) == Return(Scalar(Num(0)), FALSE, FALSE, None, <<>>)

LinearField(u, reduction) ==
    IF reduction = "none" THEN Raise("NotImplementedError", "reduction", <<>>, None)
    ELSE Return(Scalar(Num(0)), FALSE, FALSE, None, <<>>)

After(steps, r) ==
    IF r.err # "none" THEN Raise(r.err, r.why, steps \o r.steps, None)
    ELSE Return(r.out, FALSE, FALSE, None, steps \o r.steps)

(***************************************************************************)
(* grad_loss(u, p, q, spacing, sigma, mode, which, reduction)              *)
(***************************************************************************)
\* A variant of grad_loss_default_q: q defaults to None, hence to 1 / p.
grad_loss_default_q_none == PyNone

grad_loss_default_q == Num(1)

\* A variant of grad_power that raises the signed derivative to the power p
\* without taking its absolute value.
grad_power_signed(deriv, p) ==
    IF p # 0 THEN tpow(deriv, Num(p)) ELSE deriv

grad_power(deriv, p) ==
    IF p = 1 THEN tabs(deriv)
    ELSE IF p # 0
         THEN (IF p % 2 = 0 THEN tpow(deriv, Num(p)) ELSE tpow(tabs(deriv), Num(p)))
    ELSE deriv

grad_outer(loss, q) ==
    IF q = Num(0) THEN tabs(loss)
    ELSE IF q # Num(1) THEN tpow(loss, q)
    ELSE loss

grad_loss(u, p, q, which, reduction) ==
    IF Len(u.shape) < 4 THEN LinearField(u, reduction)
    ELSE IF Len(u.shape) - 2 # u.shape[2] THEN Raise("ValueError", "u", <<>>, None)
    ELSE
    LET q0 == IF q = Omitted THEN grad_loss_default_q ELSE q
    IN  IF q0 = PyNone /\ p = 0 THEN Raise("ZeroDivisionError", "p", <<>>, None)
        ELSE
        LET q1 == IF q0 = PyNone THEN Rat(1, p) ELSE q0
            keys == IF which = <<>> THEN keys_all(u.shape[2], 1) ELSE which
            derivs == spatial_derivatives(u, keys)
            loss == SumTensors([k \in 1..Len(derivs) |-> grad_power(derivs[k], p)])
        IN  After(<<"derivatives", "sum">>, reduce_loss(grad_outer(loss, q1), reduction, None))

(***************************************************************************)
(* bending_loss(u, spacing, sigma, mode, reduction)                        *)
(***************************************************************************)
bending_weight(key) == IF is_mixed(key) THEN 2 ELSE 1

bending_loss(u, reduction) ==
    IF Len(u.shape) < 4 THEN LinearField(u, reduction)
    ELSE IF Len(u.shape) - 2 # u.shape[2] THEN Raise("ValueError", "u", <<>>, None)
    ELSE
    LET which == keys_unique(keys_all(u.shape[2], 2))
        derivs == spatial_derivatives(u, which)
        scaled == [k \in 1..Len(derivs) |-> tmuls(derivs[k], Num(bending_weight(which[k])))]
        loss == SumTensors([k \in 1..Len(derivs) |-> tpow(scaled[k], Num(2))])
    IN  After(<<"derivatives", "sum">>, reduce_loss(loss, reduction, None))

(***************************************************************************)
(* curvature_loss(u, spacing, sigma, mode, reduction)                      *)
(***************************************************************************)
curvature_loss(u, reduction) ==
    IF Len(u.shape) < 4 THEN LinearField(u, reduction)
    ELSE IF Len(u.shape) - 2 # u.shape[2] THEN Raise("ValueError", "u", <<>>, None)
    ELSE
    LET which == keys_unmixed(u.shape[2], 2)
        derivs == spatial_derivatives(u, which)
        loss == tmuls(tpow(SumTensors(derivs), Num(2)), Rat(1, 2))
    IN  After(<<"derivatives", "sum">>, reduce_loss(loss, reduction, None))

(***************************************************************************)
(* diffusion_loss and total_variation_loss                                 *)
(***************************************************************************)
diffusion_loss(u, reduction) ==
    LET g == grad_loss(u, 2, Num(1), <<>>, reduction)
    IN  IF g.err # "none" THEN g
        ELSE Return(tmuls(g.out, Rat(1, 2)), FALSE, FALSE, None, g.steps)

total_variation_loss(u, reduction) == grad_loss(u, 1, Num(1), <<>>, reduction)

(***************************************************************************)
(* divergence_loss(u, q, spacing, sigma, mode, reduction)                  *)
(***************************************************************************)
divergence_outer(loss, q) == IF q = Num(1) THEN tabs(loss) ELSE tpow(loss, q)

divergence_loss(u, q, reduction) ==
    IF Len(u.shape) < 4 THEN LinearField(u, reduction)
    ELSE IF Len(u.shape) - 2 # u.shape[2] THEN Raise("ValueError", "u", <<>>, None)
    ELSE
    LET which == keys_unmixed(u.shape[2], 1)
        g == grad_loss(u, 0, Omitted, which, "none")
    IN  IF g.err # "none" THEN g
        ELSE IF q = PyNone THEN Raise("TypeError", "q", g.steps, None)
        ELSE After(g.steps, reduce_loss(divergence_outer(g.out, q), reduction, None))

(***************************************************************************)
(* elasticity_loss(u, spacing, sigma, mode, reduction)                     *)
(***************************************************************************)
\* derivs[:, a, ..., b] at batch n and grid point g of a (N, D, *spatial) field.
deriv_at(derivs, shape, n, g, a, b) ==
    derivs[b].data[((n - 1) * shape[2] + (a - 1)) * Prod(SubSeq(shape, 3, Len(shape))) + g]

RECURSIVE strain_sum(_, _, _, _, _)
strain_sum(derivs, shape, n, g, ab) ==
    IF ab = 0 THEN Num(0)
    ELSE LET D == shape[2]
             a == (ab - 1) \div D + 1
             b == ((ab - 1) % D) + 1
             e == RMul(Rat(1, 2), RAdd(deriv_at(derivs, shape, n, g, a, b),
                                       deriv_at(derivs, shape, n, g, b, a)))
         IN  RAdd(RMul(e, e), strain_sum(derivs, shape, n, g, ab - 1))

elasticity_loss(u, reduction) ==
    IF Len(u.shape) < 4 THEN LinearField(u, reduction)
    ELSE IF Len(u.shape) - 2 # u.shape[2] THEN Raise("ValueError", "u", <<>>, None)
    ELSE
    LET D == u.shape[2]
        G == Prod(SubSeq(u.shape, 3, Len(u.shape)))
        derivs == spatial_derivatives(u, keys_all(D, 1))
        loss == Tensor(<<u.shape[1]>> \o SubSeq(u.shape, 3, Len(u.shape)),
                       [i \in 1..(u.shape[1] * G) |->
                           strain_sum(derivs, u.shape, (i - 1) \div G + 1,
                                      ((i - 1) % G) + 1, D * D)])
    IN  IF reduction = "none"
        THEN Return(Tensor(<<u.shape[1], 1>> \o SubSeq(u.shape, 3, Len(u.shape)), loss.data),
                    FALSE, FALSE, None, <<"derivatives", "sum">>)
        ELSE After(<<"derivatives", "sum">>, reduce_loss(loss, reduction, None))

(***************************************************************************)
(* inverse_consistency_loss(forward, inverse, grid, margin, mask, units,   *)
(* reduction).  A transform is [dense, N, t]: a batch of N translations by *)
(* the vector t, given as a dense displacement field on the grid (rank 4)  *)
(* or as affine parameters (rank 3).  A grid is [shape, spacing] with      *)
(* shape = <<Y, X>> and size() = <<X, Y>>.  A margin is [float, v].        *)
(***************************************************************************)
NoGrid == [shape |-> <<>>, spacing |-> <<>>]

Grid(shape) == [shape |-> shape, spacing |-> [k \in 1..Len(shape) |-> Num(1)]]

grid_size(grid) == [k \in 1..Len(grid.shape) |-> grid.shape[Len(grid.shape) + 1 - k]]

\* transform_points(inverse, transform_grid(forward, x)) - x at every point of
\* the grid: the two translations added up.
consistency_error(forward, inverse, grid) ==
    [shape |-> <<forward.N>> \o grid.shape,
     vec |-> [i \in 1..(forward.N * Prod(grid.shape)) |->
                 [k \in 1..Len(grid.shape) |-> RAdd(forward.t[k], inverse.t[k])]] \o <<>>]

\* error[move_dim(mask == 0, 1, -1).expand_as(error)] = 0
zero_outside(error, mask) ==
    LET G == Prod(SubSeq(error.shape, 2, Len(error.shape)))
        at(i) == IF mask.shape[1] = 1 THEN ((i - 1) % G) + 1 ELSE i
    IN  [error EXCEPT !.vec = [i \in 1..Len(error.vec) |->
            IF mask.data[at(i)] = Num(0)
            THEN [k \in 1..Len(error.vec[i]) |-> Num(0)]
            ELSE error.vec[i]] \o <<>>]

\* int(margin * n) for a float margin, max(0, int(margin)) for an int margin.
trunc(a) == IF a[1] >= 0 THEN a[1] \div a[2] ELSE -((-a[1]) \div a[2])

margin_points(margin, size) ==
    IF margin.float THEN [k \in 1..Len(size) |-> trunc(RMul(margin.v, Num(size[k])))]
    ELSE [k \in 1..Len(size) |-> IF trunc(margin.v) < 0 THEN 0 ELSE trunc(margin.v)]

\* error[:, m_y : Y - m_y, m_x : X - m_x, :] of a 2-dimensional grid
discard_boundary(error, m) ==
    LET Y == error.shape[2]
        X == error.shape[3]
        ys == {y \in 1..Y : m[2] < y /\ y <= Y - m[2]}
        xs == {x \in 1..X : m[1] < x /\ x <= X - m[1]}
        ny == Cardinality(ys)
        nx == Cardinality(xs)
        src(j) == LET n == (j - 1) \div (ny * nx)
                      y == ((j - 1) \div nx) % ny
                      x == (j - 1) % nx
                  IN  (n * Y + (y + m[2])) * X + (x + m[1]) + 1
    IN  [shape |-> <<error.shape[1], ny, nx>>,
         vec |-> [j \in 1..(error.shape[1] * ny * nx) |-> error.vec[src(j)]] \o <<>>]

\* denormalize_flow(error, size=grid.size(), channels_last=True)
denormalize_flow(error, size) ==
    [error EXCEPT !.vec = [i \in 1..Len(error.vec) |->
        [k \in 1..Len(size) |->
            RMul(error.vec[i][k], IF size[k] > 1 THEN Rat(size[k] - 1, 2) ELSE Num(0))]]
        \o <<>>]

times_spacing(error, spacing) ==
    [error EXCEPT !.vec = [i \in 1..Len(error.vec) |->
        [k \in 1..Len(spacing) |-> RMul(error.vec[i][k], spacing[k])]] \o <<>>]

\* error.norm(p=2, dim=-1)
error_norm(error) ==
    Tensor(error.shape, [i \in 1..Len(error.vec) |->
        RPow(SumSeq([k \in 1..Len(error.vec[i]) |-> RMul(error.vec[i][k], error.vec[i][k])]),
             Rat(1, 2))])

count_nonzero(mask) == Cardinality({i \in 1..Len(mask.data) : mask.data[i] # Num(0)})

\* A variant of consistency_count that counts the nonzero mask entries whenever
\* a mask is given, whatever the reduction.
consistency_count_masked(norms, mask, reduction) ==
    IF mask # None THEN count_nonzero(mask) ELSE numel(norms)

consistency_count(norms, mask, reduction) ==
    IF reduction = "mean" /\ mask # None THEN count_nonzero(mask) ELSE numel(norms)

inverse_consistency_loss(forward, inverse, grid, margin, mask, units, reduction) ==
    IF forward = NotATensor \/ inverse = NotATensor
    THEN Raise("TypeError", "forward", <<>>, None)
    ELSE IF grid = NoGrid /\ ~forward.dense /\ ~inverse.dense
    THEN Raise("ValueError", "grid", <<>>, None)
    ELSE
    LET g == IF grid # NoGrid THEN grid
             ELSE IF ~forward.dense THEN Grid(inverse.shape) ELSE Grid(forward.shape)
        ndim == Len(g.shape)
        e0 == consistency_error(forward, inverse, g)
        s0 == <<"transform">>
        masked == mask # None
        e1 == IF masked THEN zero_outside(e0, mask) ELSE e0
        s1 == IF masked THEN s0 \o <<"mask">> ELSE s0
        trim == RGreater(margin.v, Num(0))
        e2 == IF trim THEN discard_boundary(e1, margin_points(margin, grid_size(g))) ELSE e1
        s2 == IF trim THEN s1 \o <<"margin">> ELSE s1
        scaled == units \in {"voxel", "world"}
        e3 == IF scaled THEN denormalize_flow(e2, grid_size(g)) ELSE e2
        e4 == IF units = "world" THEN times_spacing(e3, g.spacing) ELSE e3
        s4 == IF scaled THEN s2 \o <<"units">> ELSE s2
        norms == error_norm(e4)
        count == consistency_count(norms, mask, reduction)
    IN  IF masked /\ mask = NotATensor THEN Raise("TypeError", "mask", s0, None)
        ELSE IF masked /\ Len(mask.shape) # ndim + 2
        THEN Raise("ValueError", "mask", s0, None)
        ELSE IF masked /\ mask.shape[2] # 1 THEN Raise("ValueError", "mask", s0, None)
        ELSE IF masked /\ mask.shape[1] # 1 /\ mask.shape[1] # e0.shape[1]
        THEN Raise("ValueError", "mask", s0, None)
        ELSE IF masked /\ SubSeq(mask.shape, 3, Len(mask.shape)) # g.shape
        THEN Raise("RuntimeError", "mask", s0, None)
        ELSE IF trim /\ margin.float /\ (RGreater(Num(0), margin.v)
                                         \/ ~RGreater(Num(1), margin.v))
        THEN Raise("ValueError", "margin", s1, None)
        ELSE IF reduction # "none"
        THEN Return(tdiv(tsum(norms), Num(count)), FALSE, FALSE, None,
                    s4 \o <<"norm", "reduce">>)
        ELSE Return(norms, FALSE, FALSE, None, s4 \o <<"norm">>)

(***************************************************************************)
(* The caller's tensors (heap) and the last call it made (last).           *)
(***************************************************************************)
Shapes == {<<1, 1, 1>>, <<2, 1, 1>>, <<1, 2, 1>>, <<1, 1, 2>>}

TensorsOver(shapes, vals) ==
    UNION {{Tensor(s, d) : d \in [1..Prod(s) -> {Num(v) : v \in vals}]} : s \in shapes}

Filled(shape, v) == Tensor(shape, [i \in 1..Prod(shape) |-> Num(v)])

Inputs == TensorsOver(Shapes, 0..MaxVal)

Masks == TensorsOver(Shapes, 0..MaxMask) \cup {None, NotATensor}

Targets(input) == {Filled(input.shape, 0), Filled(input.shape, 1), Filled(<<1, 1, 3>>, 0)}

Reductions == {"none", "mean", "sum", "max"}

Norms == {None, Scalar(Num(-1)), Scalar(Num(0)), Scalar(Num(2)), Tensor(<<1>>, <<Num(2)>>),
          Tensor(<<2>>, <<Num(1), Num(2)>>)}

KernelSizes == {1, 3}

Epsilons == {Num(1)}

NoArgs == [reduction |-> "", norm |-> None, kernel_size |-> 0, p |-> 0, q |-> Omitted,
           margin |-> [float |-> FALSE, v |-> Num(0)], units |-> ""]

Idle == [op |-> "init", args |-> NoArgs, pre |-> <<>>,
         err |-> "none", why |-> "", out |-> None, self |-> FALSE, wrote |-> FALSE,
         stored |-> None, steps |-> <<>>]

Called(op, args, r) ==
    [op |-> op, args |-> args, pre |-> heap,
     err |-> r.err, why |-> r.why, out |-> r.out, self |-> r.self, wrote |-> r.wrote,
     stored |-> r.stored, steps |-> r.steps]

Init ==
    /\ \E i \in Inputs, m \in Masks :
           \E t \in Targets(i) :
               heap = [kind |-> "images", input |-> i, target |-> t, mask |-> m]
    /\ last = Idle

\* The caller makes one call at a time: it holds no result when it calls, and
\* drops the result it holds before the next call.
Ready(kind) == heap.kind = kind /\ last.op = "init"

Drop ==
    /\ last.op # "init"
    /\ last' = Idle
    /\ UNCHANGED heap

\* What a call leaves in the storage of its first argument.
Stores(r) ==
    /\ \A i \in 1..Len(r.stored.data) : ~RGreater(r.stored.data[i], Num(MaxVal * MaxMask))
    /\ heap' = [heap EXCEPT !.input = IF r.wrote THEN r.stored ELSE @]

ReduceLoss ==
    /\ Ready("images")
    /\ \E reduction \in Reductions :
        LET r == reduce_loss(heap.input, reduction, heap.mask)
        IN  /\ Stores(r)
            /\ last' = Called("reduce_loss", [NoArgs EXCEPT !.reduction = reduction], r)

MaskedLoss ==
    /\ Ready("images")
    /\ LET r == masked_loss(heap.input, heap.mask)
       IN  /\ Stores(r)
           /\ last' = Called("masked_loss", NoArgs, r)

SsdLoss ==
    /\ Ready("images")
    /\ \E reduction \in Reductions \cup {"default"}, norm \in Norms :
        LET red == IF reduction = "default" THEN ssd_loss_default_reduction ELSE reduction
            r == ssd_loss(heap.input, heap.target, heap.mask, norm, red)
        IN  /\ Stores(r)
            /\ last' = Called("ssd_loss",
                              [NoArgs EXCEPT !.reduction = reduction, !.norm = norm], r)

MseLoss ==
    /\ Ready("images")
    /\ \E reduction \in Reductions \cup {"default"} :
        LET red == IF reduction = "default" THEN mse_loss_default_reduction ELSE reduction
            r == mse_loss(heap.input, heap.target, heap.mask, None, red)
        IN  /\ Stores(r)
            /\ last' = Called("mse_loss", [NoArgs EXCEPT !.reduction = reduction], r)

LccLoss ==
    /\ Ready("images")
    /\ \E reduction \in Reductions, kernel_size \in KernelSizes, epsilon \in Epsilons :
        LET r == lcc_loss(heap.input, heap.target, heap.mask, kernel_size, epsilon,
                          reduction)
        IN  /\ Stores(r)
            /\ last' = Called("lcc_loss",
                              [NoArgs EXCEPT !.reduction = reduction,
                                             !.kernel_size = kernel_size], r)

Next == ReduceLoss \/ MaskedLoss \/ SsdLoss \/ MseLoss \/ LccLoss \/ Drop

Spec == Init /\ [][Next]_vars

(***************************************************************************)
(* The caller's vector fields and the smoothness losses.                   *)
(***************************************************************************)
JetVals(order) == IF order = 1 THEN -MaxDeriv..MaxDeriv ELSE {-MaxDeriv, 0, MaxDeriv}

DenseShape == <<1, 2, 2, 2>>

Jets(order) ==
    LET keys == IF order = 1 THEN {<<1>>, <<2>>} ELSE {<<1, 1>>, <<1, 2>>, <<2, 2>>}
    IN  [keys -> [1..2 -> JetVals(order)]]

Fields ==
    {[shape |-> s, order |-> 0, jet |-> <<>>] :
        s \in {<<6>>, <<2, 3>>, <<1, 2, 3>>, <<1, 3, 2, 2>>}}
    \cup {[shape |-> DenseShape, order |-> 1, jet |-> j] : j \in Jets(1)}
    \cup {[shape |-> DenseShape, order |-> 2, jet |-> j] : j \in Jets(2)}

Powers == 0..3

OuterPowers == {Omitted, PyNone, Num(0), Num(1), Num(2)}

DivergencePowers == {PyNone, Num(-1), Num(0), Num(1), Num(2), Rat(1, 2)}

InitField ==
    /\ \E u \in Fields : heap = [kind |-> "field", u |-> u]
    /\ last = Idle

Takes(order) == Ready("field") /\ heap.u.order \in {0, order}

GradLoss ==
    /\ Takes(1)
    /\ \E p \in Powers, q \in OuterPowers, reduction \in Reductions :
        /\ last' = Called("grad_loss",
                          [NoArgs EXCEPT !.reduction = reduction, !.p = p, !.q = q],
                          grad_loss(heap.u, p, q, <<>>, reduction))
        /\ UNCHANGED heap

BendingLoss ==
    /\ Takes(2)
    /\ \E reduction \in Reductions :
        /\ last' = Called("bending_loss", [NoArgs EXCEPT !.reduction = reduction],
                          bending_loss(heap.u, reduction))
        /\ UNCHANGED heap

CurvatureLoss ==
    /\ Takes(2)
    /\ \E reduction \in Reductions :
        /\ last' = Called("curvature_loss", [NoArgs EXCEPT !.reduction = reduction],
                          curvature_loss(heap.u, reduction))
        /\ UNCHANGED heap

DiffusionLoss ==
    /\ Takes(1)
    /\ \E reduction \in Reductions :
        /\ last' = Called("diffusion_loss", [NoArgs EXCEPT !.reduction = reduction],
                          diffusion_loss(heap.u, reduction))
        /\ UNCHANGED heap

DivergenceLoss ==
    /\ Takes(1)
    /\ \E q \in DivergencePowers, reduction \in Reductions :
        /\ last' = Called("divergence_loss",
                          [NoArgs EXCEPT !.reduction = reduction, !.q = q],
                          divergence_loss(heap.u, q, reduction))
        /\ UNCHANGED heap

ElasticityLoss ==
    /\ Takes(1)
    /\ \E reduction \in Reductions :
        /\ last' = Called("elasticity_loss", [NoArgs EXCEPT !.reduction = reduction],
                          elasticity_loss(heap.u, reduction))
        /\ UNCHANGED heap

TotalVariationLoss ==
    /\ Takes(1)
    /\ \E reduction \in Reductions :
        /\ last' = Called("total_variation_loss", [NoArgs EXCEPT !.reduction = reduction],
                          total_variation_loss(heap.u, reduction))
        /\ UNCHANGED heap

NextField ==
    \/ GradLoss
    \/ BendingLoss
    \/ CurvatureLoss
    \/ DiffusionLoss
    \/ DivergenceLoss
    \/ ElasticityLoss
    \/ TotalVariationLoss
    \/ Drop

SpecField == InitField /\ [][NextField]_vars

(***************************************************************************)
(* The caller's coordinate maps and inverse_consistency_loss.              *)
(***************************************************************************)
GridShapes == {<<1, 4>>, <<3, 3>>}

Transform(dense, N, t, shape) ==
    [dense |-> dense, N |-> N, t |-> [k \in 1..Len(t) |-> Num(t[k])],
     shape |-> IF dense THEN shape ELSE <<>>]

\* Masks over a grid: everywhere, nowhere, the first point only, all but the
\* first point; for a batch of two; with two channels; of the wrong rank.
GridMasks(shape) ==
    LET G == Prod(shape)
        one == <<1, 1>> \o shape
    IN  {None, NotATensor,
         Filled(one, MaxMask),
         Filled(one, 0),
         Tensor(one, [i \in 1..G |-> IF i = 1 THEN Num(MaxMask) ELSE Num(0)]),
         Tensor(one, [i \in 1..G |-> IF i = 1 THEN Num(0) ELSE Num(MaxMask)]),
         Tensor(<<2, 1>> \o shape, [i \in 1..(2 * G) |-> IF i <= G THEN Num(1) ELSE Num(0)]),
         Filled(<<1, 2>> \o shape, 1),
         Filled(<<1, 1, G>>, 1)}

Margins ==
    {[float |-> FALSE, v |-> Num(0)], [float |-> FALSE, v |-> Num(1)],
     [float |-> TRUE, v |-> Rat(-1, 2)], [float |-> TRUE, v |-> Rat(1, 4)],
     [float |-> TRUE, v |-> Num(1)]}

Units == {"cube", "voxel", "world"}

InitMaps ==
    /\ \E shape \in GridShapes, fd \in BOOLEAN, N \in 1..2, id \in BOOLEAN,
          it \in {<<-3, -4>>, <<-3, 0>>}, given \in BOOLEAN :
         \E m \in GridMasks(shape) :
            heap = [kind |-> "maps",
                    forward |-> Transform(fd, N, <<3, 4>>, shape),
                    inverse |-> Transform(id, N, it, shape),
                    grid |-> IF given THEN [shape |-> shape, spacing |-> <<Num(2), Num(1)>>]
                             ELSE NoGrid,
                    mask |-> m]
    /\ last = Idle

InverseConsistencyLoss ==
    /\ Ready("maps")
    /\ \E margin \in Margins, units \in Units, reduction \in Reductions :
        /\ last' = Called("inverse_consistency_loss",
                          [NoArgs EXCEPT !.reduction = reduction, !.margin = margin,
                                         !.units = units],
                          inverse_consistency_loss(heap.forward, heap.inverse, heap.grid,
                                                   margin, heap.mask, units, reduction))
        /\ UNCHANGED heap

NextMaps == InverseConsistencyLoss \/ Drop

SpecMaps == InitMaps /\ [][NextMaps]_vars

(***************************************************************************)
(* A caller of dice_score with its prediction, target and weight tensors.  *)
(***************************************************************************)
DiceShapes == {<<1, 2, 2>>, <<2, 1, 1>>, <<1, 2>>}

DiceTargets(input) ==
    {input, Filled(input.shape, 0), Filled(input.shape, 1), Filled(<<1, 1, 3>>, 0),
     NotATensor}

DiceWeights(input) == {None, Filled(input.shape, 2)}

DiceEpsilons == {Num(1), Rat(1, 2), Num(0), Underflow}

InitDice ==
    /\ \E i \in TensorsOver(DiceShapes, 0..MaxVal) \cup {NotATensor} :
           \E t \in DiceTargets(i), w \in DiceWeights(i) :
               heap = [kind |-> "dice", input |-> i, target |-> t, weight |-> w]
    /\ last = Idle

DiceScore ==
    /\ Ready("dice")
    /\ \E reduction \in Reductions, epsilon \in DiceEpsilons :
        LET r == dice_score(heap.input, heap.target, heap.weight, epsilon, reduction)
        IN  /\ last' = Called("dice_score",
                              [reduction |-> reduction, epsilon |-> epsilon], r)
            /\ UNCHANGED heap

NextDice == DiceScore \/ Drop

SpecDice == InitDice /\ [][NextDice]_vars

(***************************************************************************)
(* deepali.data.dataset.Dataset: transforms are values of one record type, *)
(* None, a module (a transform), a list of transforms or a                 *)
(* torch.nn.Sequential of them.  Samples are integers and the two modules  *)
(* do not commute.                                                         *)
(***************************************************************************)
NoTransform == [type |-> "None", name |-> "", items |-> <<>>]

Module(name) == [type |-> "Module", name |-> name, items |-> <<>>]

List(items) == [type |-> "list", name |-> "", items |-> items]

Sequential(items) == [type |-> "Sequential", name |-> "", items |-> items]

\* A variant of call that applies the modules of a Sequential last to first.
RECURSIVE call_reversed(_, _)
call_reversed(t, x) ==
    IF t.type = "Module" THEN (IF t.name = "inc" THEN x + 1 ELSE 2 * x)
    ELSE IF t.items = <<>> THEN x
    ELSE call_reversed(Head(t.items), call_reversed(Sequential(Tail(t.items)), x))

\* transform(sample): a module maps the sample, a Sequential passes it
\* through its modules in order.
RECURSIVE call(_, _)
call(t, x) ==
    IF t.type = "Module" THEN (IF t.name = "inc" THEN x + 1 ELSE 2 * x)
    ELSE IF t.items = <<>> THEN x
    ELSE call(Sequential(Tail(t.items)), call(Head(t.items), x))

\* Dataset.__init__(transform)
Dataset(transform) ==
    [_transform |->
        IF transform # NoTransform /\ transform.type # "Sequential"
        THEN Sequential(IF transform.type # "list" THEN <<transform>> ELSE transform.items)
        ELSE transform]

\* The abstract sample(index) of a dataset over the sequence data.
sample(data, index) == data[index + 1]

\* Dataset.__getitem__(index)
getitem(self, data, index) ==
    IF self._transform # NoTransform THEN call(self._transform, sample(data, index))
    ELSE sample(data, index)

\* The list transforms that transform_ collects from its arguments.
RECURSIVE collect(_)
collect(args) ==
    IF args = <<>> THEN <<>>
    ELSE LET arg == Head(args)
         IN  (IF arg = NoTransform THEN <<>>
              ELSE IF arg.type = "list" THEN arg.items
              ELSE <<arg>>) \o collect(Tail(args))

\* Dataset.transform_(*args): the dataset after the call.
transform_(self, args) ==
    LET transforms == collect(args)
    IN  [self EXCEPT !._transform =
            IF transforms = <<>> THEN NoTransform
            ELSE IF Len(transforms) = 1 /\ transforms[1].type = "Sequential"
                 THEN transforms[1]
            ELSE Sequential(transforms)]

\* A variant of transform that sets the transform of the dataset itself and
\* returns it, without copying it first.
transform_shared(objs, self, args) ==
    [objs |-> [objs EXCEPT ![self] = transform_(objs[self], args)], out |-> self]

\* Dataset.transform(*args) with arguments: the objects after the call and
\* the one returned, a shallow copy of self with the new transform.
transform(objs, self, args) ==
    [objs |-> Append(objs, transform_(objs[self], args)), out |-> Len(objs) + 1]

(***************************************************************************)
(* A program holding up to MaxDatasets datasets over the same samples.     *)
(* given[k] is a history of the transform arguments dataset k got last, at *)
(* its construction or by transform_.                                      *)
(***************************************************************************)
MaxDatasets == 2

Samples == <<3, 5>>

Transforms ==
    {NoTransform, Module("inc"), Module("dbl"), List(<<Module("dbl"), Module("inc")>>),
     List(<<>>), Sequential(<<Module("inc"), Module("dbl")>>)}

TransformArgs ==
    {<<t>> : t \in Transforms}
    \cup {<<NoTransform, NoTransform>>,
          <<Module("inc"), Module("dbl")>>,
          <<Module("dbl"), NoTransform>>,
          <<Sequential(<<Module("inc"), Module("dbl")>>), Module("inc")>>,
          <<List(<<Module("dbl"), Module("inc")>>),
            Sequential(<<Module("inc"), Module("dbl")>>)>>}

InitDatasets ==
    /\ \E t \in Transforms :
           heap = [kind |-> "datasets", data |-> Samples, objs |-> <<Dataset(t)>>,
                   given |-> <<<<t>>>>]
    /\ last = Idle

DatasetArgs(self, args, index) == [self |-> self, args |-> args, index |-> index]

GetItem ==
    /\ Ready("datasets")
    /\ \E self \in 1..Len(heap.objs), index \in 0..(Len(heap.data) - 1) :
        /\ last' = Called("__getitem__", DatasetArgs(self, <<>>, index),
                          Return(getitem(heap.objs[self], heap.data, index),
                                 FALSE, FALSE, None, <<>>))
        /\ UNCHANGED heap

GetTransform ==
    /\ Ready("datasets")
    /\ \E self \in 1..Len(heap.objs) :
        /\ last' = Called("transform", DatasetArgs(self, <<>>, 0),
                          Return(heap.objs[self]._transform, FALSE, FALSE, None, <<>>))
        /\ UNCHANGED heap

NewTransform ==
    /\ Ready("datasets")
    /\ Len(heap.objs) < MaxDatasets
    /\ \E self \in 1..Len(heap.objs), args \in TransformArgs :
        LET r == transform(heap.objs, self, args)
        IN  /\ heap' = [heap EXCEPT !.objs = r.objs, !.given = Append(@, args)]
            /\ last' = Called("transform", DatasetArgs(self, args, 0),
                              Return(r.out, FALSE, FALSE, None, <<>>))

SetTransform ==
    /\ Ready("datasets")
    /\ \E self \in 1..Len(heap.objs), args \in TransformArgs \cup {<<>>} :
        /\ heap' = [heap EXCEPT !.objs[self] = transform_(@, args), !.given[self] = args]
        /\ last' = Called("transform_", DatasetArgs(self, args, 0),
                          Return(self, FALSE, FALSE, None, <<>>))

NextDatasets == GetItem \/ GetTransform \/ NewTransform \/ SetTransform \/ Drop

SpecDatasets == InitDatasets /\ [][NextDatasets]_vars

(***************************************************************************)
(* deepali.data.dataset.MetaDataset.  A Python string is a sequence of     *)
(* pieces, each a literal text or a replacement field such as "{id}"; a    *)
(* dict is a function on its keys, and the ordered dict paths a sequence   *)
(* of entries [name, callable, path].                                      *)
(***************************************************************************)
\* The name of the replacement field that a piece of a format string is, or ""
\* for a literal piece.
Field(piece) ==
    CASE piece = "{id}" -> "id"
      [] piece = "{prefix}" -> "prefix"
      [] piece = "{ext}" -> "ext"
      [] OTHER -> ""

\* str.format(**args) raises KeyError for a field that args does not have.
format_fails(s, args) ==
    \E i \in 1..Len(s) : Field(s[i]) # "" /\ Field(s[i]) \notin DOMAIN args

\* str.format(**args)
RECURSIVE format(_, _)
format(s, args) ==
    IF s = <<>> THEN <<>>
    ELSE (IF Field(Head(s)) = "" THEN <<Head(s)>> ELSE args[Field(Head(s))])
         \o format(Tail(s), args)

\* key in d, for a string key
contains(d, key) == Len(key) = 1 /\ key[1] \in DOMAIN d

\* d[key] = value
setitem(d, key, value) ==
    [k \in DOMAIN d \cup {key} |-> IF k = key THEN value ELSE d[k]]

\* d.update(other)
update(d, other) ==
    [k \in DOMAIN d \cup DOMAIN other |-> IF k \in DOMAIN other THEN other[k] ELSE d[k]]

EmptyDict == [k \in {} |-> <<>>]

\* MetaDataset.__init__: the dataset, or the error its construction raises.
MetaDataset(table, columns, paths, prefix, kwargs) ==
    [err |-> IF "meta" \in columns \/ \E i \in 1..Len(paths) : paths[i].name = "meta"
             THEN "ValueError" ELSE "none",
     table |-> table, paths |-> paths, prefix |-> prefix, kwargs |-> kwargs]

\* table.iloc[index] raises IndexError for a position outside the table; a
\* negative position counts from the end.
iloc_fails(table, index) == index >= Len(table) \/ index < -Len(table)

\* MetaDataset.row(index)
row(self, index) ==
    self.table[IF index < 0 THEN Len(self.table) + index + 1 ELSE index + 1]

\* path in meta, and meta[path] if so.
lookup(path, meta) == IF contains(meta, path) THEN <<TRUE, meta[path[1]]>>
                      ELSE <<FALSE, <<>>>>

\* The loop of MetaDataset.sample over the entries of paths from the i-th on.
RECURSIVE sample_paths(_, _, _, _, _)
sample_paths(paths, i, args, data, meta) ==
    IF i > Len(paths) THEN [err |-> "none", flat |-> FALSE, data |-> data, meta |-> meta]
    ELSE
    LET entry == paths[i]
        found == lookup(entry.path, meta)
        column == ~entry.callable /\ found[1]
        path == IF column THEN found[2] ELSE format(entry.path, args)
    IN  IF ~column /\ format_fails(entry.path, args)
        THEN [err |-> "KeyError", flat |-> FALSE, data |-> EmptyDict, meta |-> EmptyDict]
        ELSE IF path = <<>> THEN sample_paths(paths, i + 1, args, data, meta)
        ELSE sample_paths(paths, i + 1, args, setitem(data, entry.name, path),
                          setitem(meta, entry.name, path))

\* The format arguments of MetaDataset.sample: prefix, kwargs, then the row.
format_args(self, meta) ==
    update(update(IF self.prefix # <<>> THEN [k \in {"prefix"} |-> self.prefix]
                  ELSE EmptyDict,
                  self.kwargs),
           meta)

\* MetaDataset.sample(index): data stands for the returned dict without its
\* "meta" entry, which is meta; flat says that the row itself is returned.
MetaDataset_sample(self, index) ==
    LET meta == row(self, index)
    IN  IF self.paths = <<>>
        THEN [err |-> "none", flat |-> TRUE, data |-> EmptyDict, meta |-> meta]
        ELSE sample_paths(self.paths, 1, format_args(self, meta), EmptyDict, meta)

(***************************************************************************)
(* A program holding a MetaDataset over a table of two rows.               *)
(***************************************************************************)
Columns == {"id", "file"}

Table ==
    <<[id |-> <<"a">>, file |-> <<"a.nii">>], [id |-> <<"b">>, file |-> <<>>]>>

PathEntry(name, callable, path) == [name |-> name, callable |-> callable, path |-> path]

PathEntries ==
    {PathEntry("image", FALSE, <<"img_", "{id}">>),
     PathEntry("mask", FALSE, <<"image">>),
     PathEntry("scan", FALSE, <<"file">>),
     PathEntry("seg", FALSE, <<"{prefix}", "/", "{id}", "{ext}">>),
     PathEntry("id", FALSE, <<"{id}", ".txt">>),
     PathEntry("ref", FALSE, <<"id">>),
     PathEntry("func", TRUE, <<"f_", "{id}">>),
     PathEntry("meta", FALSE, <<"{id}">>)}

Paths ==
    {<<>>} \cup {<<e>> : e \in PathEntries}
    \cup {p \in PathEntries \X PathEntries : p[1].name # p[2].name}

Prefixes == {<<>>, <<"/data">>}

Kwargs == {EmptyDict, [k \in {"ext"} |-> <<".nii">>]}

InitMeta ==
    /\ \E paths \in Paths, prefix \in Prefixes, kwargs \in Kwargs :
           heap = [kind |-> "meta",
                   dataset |-> MetaDataset(Table, Columns, paths, prefix, kwargs)]
    /\ last = Idle

Sample ==
    /\ Ready("meta")
    /\ heap.dataset.err = "none"
    /\ \E index \in 0..(Len(heap.dataset.table) - 1) :
        LET r == MetaDataset_sample(heap.dataset, index)
        IN  /\ last' = Called("sample", [index |-> index],
                              [err |-> r.err, why |-> "", out |-> r, self |-> FALSE,
                               wrote |-> FALSE, stored |-> None, steps |-> <<>>])
            /\ UNCHANGED heap

NextMeta == Sample \/ Drop

SpecMeta == InitMeta /\ [][NextMeta]_vars

(***************************************************************************)
(* deepali.data.dataset.ImageDataset.  An image transform is a module that *)
(* acts on the entry of the sample dict named by its key; it is written in *)
(* front of the entry it has acted on.                                     *)
(***************************************************************************)
ImageTransform(op, key) == [type |-> "Module", name |-> op, key |-> key]

\* prepend_read_image_transform(config): the configured transforms with a
\* read-image transform in front unless one is there already.
prepend_read_image_transform(config) ==
    IF config # <<>> /\ Head(config) = "read" THEN config ELSE <<"read">> \o config

\* image_transforms(config, key): the modules of the configured transforms,
\* acting on the sample entry key.
image_transforms(config, key) == [i \in 1..Len(config) |-> ImageTransform(config[i], key)]

\* One image transform applied to a sample dict.
call_image(module, data) ==
    IF module.key \in DOMAIN data
    THEN setitem(data, module.key, <<module.name>> \o data[module.key])
    ELSE data

\* A Sequential of image transforms applied to a sample dict.
RECURSIVE call_images(_, _)
call_images(modules, data) ==
    IF modules = <<>> THEN data
    ELSE call_images(Tail(modules), call_image(Head(modules), data))

\* cls(table, paths=..., prefix=..., transform=..., **kwargs) of ImageDataset:
\* MetaDataset.__init__, which hands its transform argument (here transforms) to
\* Dataset.__init__.
ImageDataset(table, columns, paths, prefix, transforms, kwargs) ==
    LET meta == MetaDataset(table, columns, paths, prefix, kwargs)
    IN  [made |-> TRUE, err |-> meta.err, table |-> meta.table, paths |-> meta.paths,
         prefix |-> meta.prefix, kwargs |-> meta.kwargs,
         _transform |-> Dataset(transforms)._transform]

\* The list transforms that the loop of from_config builds from the images
\* from the i-th on.
RECURSIVE config_transforms(_, _)
config_transforms(config, i) ==
    IF i > Len(config.images) THEN <<>>
    ELSE LET image_name == config.images[i].name
             image_transforms_config ==
                 IF image_name \in DOMAIN config.transforms.dict
                 THEN config.transforms.dict[image_name] ELSE <<>>
         IN  image_transforms(prepend_read_image_transform(image_transforms_config),
                              image_name)
             \o config_transforms(config, i + 1)

\* The arguments that from_config passes on besides table, paths and prefix:
\* it passes the list as keyword transforms, which goes to **kwargs, while
\* transform keeps its default None.
from_config_keyword(transforms) ==
    [transform |-> NoTransform, kwargs |-> [k \in {"transforms"} |-> transforms]]

\* ImageDataset.from_config(config): the dataset, or the error raised.
from_config(config) ==
    IF config.images # <<>> /\ config.transforms.none
    THEN [made |-> FALSE, err |-> "AttributeError"]
    ELSE LET given == from_config_keyword(config_transforms(config, 1))
         IN  ImageDataset(config.table, Columns, config.images, config.prefix,
                          given.transform, given.kwargs)

\* Dataset.__getitem__(index) of an ImageDataset.
ImageDataset_getitem(self, index) ==
    LET r == MetaDataset_sample(self, index)
    IN  IF r.err = "none" /\ self._transform.type # "None"
        THEN [r EXCEPT !.data = call_images(self._transform.items, @)]
        ELSE r

(***************************************************************************)
(* A program holding an ImageDatasetConfig and the dataset made from it.   *)
(***************************************************************************)
ConfigImages ==
    LET image == PathEntry("image", FALSE, <<"img_", "{id}">>)
        mask == PathEntry("mask", FALSE, <<"file">>)
    IN  {<<>>, <<image>>, <<mask>>, <<image, mask>>, <<mask, image>>}

ConfigTransforms ==
    {[none |-> TRUE, dict |-> EmptyDict], [none |-> FALSE, dict |-> EmptyDict]}
    \cup {[none |-> FALSE, dict |-> [k \in {"image"} |-> t]] :
             t \in {<<"rescale">>, <<"read", "rescale">>}}
    \cup {[none |-> FALSE, dict |-> [k \in {"image", "mask"} |->
                                        IF k = "image" THEN t ELSE <<"resample">>]] :
             t \in {<<>>, <<"rescale", "resample">>}}

NoDataset == [made |-> FALSE, err |-> "none"]

InitConfig ==
    /\ \E images \in ConfigImages, transforms \in ConfigTransforms, prefix \in Prefixes :
           heap = [kind |-> "config",
                   config |-> [table |-> Table, images |-> images, prefix |-> prefix,
                               transforms |-> transforms],
                   dataset |-> NoDataset]
    /\ last = Idle

Outcome(err, out) ==
    [err |-> err, why |-> "", out |-> out, self |-> FALSE, wrote |-> FALSE,
     stored |-> None, steps |-> <<>>]

FromConfig ==
    /\ Ready("config")
    /\ ~heap.dataset.made
    /\ heap.dataset.err = "none"
    /\ LET r == from_config(heap.config)
       IN  /\ heap' = [heap EXCEPT !.dataset = r]
           /\ last' = Called("from_config", [index |-> 0], Outcome(r.err, None))

ImageGetItem ==
    /\ Ready("config")
    /\ heap.dataset.made
    /\ \E index \in 0..(Len(heap.dataset.table) - 1) :
        LET r == ImageDataset_getitem(heap.dataset, index)
        IN  /\ last' = Called("__getitem__", [index |-> index], Outcome(r.err, r))
            /\ UNCHANGED heap

NextConfig == FromConfig \/ ImageGetItem \/ Drop

SpecConfig == InitConfig /\ [][NextConfig]_vars

(***************************************************************************)
(* deepali.data.dataset.JoinDataset.  A joined dataset is the sequence of  *)
(* what its __getitem__ returns for each index: an item with its dict     *)
(* data for the kinds "dict" and "namedtuple" and its value otherwise.     *)
(* Values are strings, "None" standing for Python's None.                  *)
(***************************************************************************)
Item(kind, data, value) == [kind |-> kind, data |-> data, value |-> value]

\* JoinDataset.__init__(datasets): the dataset, or the error raised.
JoinDataset(datasets) ==
    [err |-> IF \A k \in 1..Len(datasets) : Len(datasets[k]) = Len(datasets[1])
             THEN "none" ELSE "ValueError",
     datasets |-> datasets]

\* JoinDataset.__len__
JoinDataset_len(self) == IF self.datasets # <<>> THEN Len(self.datasets[1]) ELSE 0

\* The dict that sample makes of what dataset i returned (i counts from 0).
as_dict(i, item) ==
    IF item.kind \in {"dict", "namedtuple"} THEN item.data
    ELSE [k \in {ToString(i)} |-> item.value]

\* The body of the loop over data.items(): current = sample.get(key, None),
\* ValueError if current is not None and differs from value, else
\* sample[key] = value.
join_entry(sample0, key, value) ==
    LET current == IF key \in DOMAIN sample0 THEN sample0[key] ELSE "None"
    IN  IF current # "None" /\ current # value
        THEN [err |-> "ValueError", sample |-> sample0]
        ELSE [err |-> "none", sample |-> setitem(sample0, key, value)]

\* The loop over data.items(), for the keys not yet visited, in an order of
\* the dict's keys.
RECURSIVE join_items(_, _, _)
join_items(sample0, data, keys) ==
    IF keys = {} THEN [err |-> "none", sample |-> sample0]
    ELSE LET key == CHOOSE k \in keys : TRUE
             r == join_entry(sample0, key, data[key])
         IN  IF r.err # "none" THEN r ELSE join_items(r.sample, data, keys \ {key})

\* The loop of JoinDataset.sample over the datasets from the i-th on.
RECURSIVE join_datasets(_, _, _, _)
join_datasets(self, index, i, sample0) ==
    IF i > Len(self.datasets) THEN [err |-> "none", sample |-> sample0]
    ELSE LET data == as_dict(i - 1, self.datasets[i][index + 1])
             r == join_items(sample0, data, DOMAIN data)
         IN  IF r.err # "none" THEN r ELSE join_datasets(self, index, i + 1, r.sample)

\* JoinDataset.sample(index)
JoinDataset_sample(self, index) == join_datasets(self, index, 1, EmptyDict)

(***************************************************************************)
(* A program holding a JoinDataset of up to two datasets.                  *)
(***************************************************************************)
Values == {"None", "x", "y"}

Items ==
    {Item("dict", EmptyDict, ""), Item("other", EmptyDict, "x"),
     Item("other", EmptyDict, "None")}
    \cup {Item("dict", [k \in {"image"} |-> v], "") : v \in Values}
    \cup {Item("namedtuple", [k \in {"image", "label"} |-> IF k = "image" THEN v ELSE "y"], "") :
             v \in {"None", "x"}}
    \cup {Item("dict", [k \in {"0"} |-> "y"], "")}

Joined ==
    {<<item>> : item \in Items}
    \cup {<<Item("dict", [k \in {"image"} |-> "x"], ""),
       Item("dict", [k \in {"image"} |-> v], "")>> :
             v \in {"None", "x"}}

InitJoin ==
    /\ \E datasets \in {<<>>} \cup {<<d>> : d \in Joined} \cup (Joined \X Joined) :
           heap = [kind |-> "join", dataset |-> JoinDataset(datasets)]
    /\ last = Idle

JoinSample ==
    /\ Ready("join")
    /\ heap.dataset.err = "none"
    /\ \E index \in 0..(JoinDataset_len(heap.dataset) - 1) :
        LET r == JoinDataset_sample(heap.dataset, index)
        IN  /\ last' = Called("sample", [index |-> index], Outcome(r.err, r.sample))
            /\ UNCHANGED heap

NextJoin == JoinSample \/ Drop

SpecJoin == InitJoin /\ [][NextJoin]_vars

(***************************************************************************)
(* The iterator that samples() returns (SampleIterator of Dataset,         *)
(* DatasetSampleIterator of MetaDataset: the same code), over a            *)
(* MetaDataset.                                                            *)
(***************************************************************************)
\* SampleIterator.__init__(dataset)
SampleIterator_init == [index |-> -1]

\* SampleIterator.__iter__
SampleIterator_iter(self) == [self EXCEPT !.index = 0]

\* SampleIterator.__next__: the iterator after the call, the error raised, the
\* index that sample was called with and the sample returned.
SampleIterator_next(self, dataset) ==
    IF self.index >= Len(dataset.table)
    THEN [self |-> self, err |-> "StopIteration", index |-> self.index, sample |-> EmptyDict]
    ELSE IF iloc_fails(dataset.table, self.index)
    THEN [self |-> self, err |-> "IndexError", index |-> self.index, sample |-> EmptyDict]
    ELSE LET r == MetaDataset_sample(dataset, self.index)
         IN  IF r.err # "none"
             THEN [self |-> self, err |-> r.err, index |-> self.index, sample |-> EmptyDict]
             ELSE [self |-> [self EXCEPT !.index = @ + 1], err |-> "none",
                   index |-> self.index, sample |-> r]

(***************************************************************************)
(* A program holding a dataset and the iterator that samples() returned.   *)
(* nexts is a history: the number of next() calls since the most recent    *)
(* iter(), -1 before the first iter().                                     *)
(***************************************************************************)
MaxNexts == 4

Tables == {<<>>, SubSeq(Table, 1, 1), Table}

InitSamples ==
    /\ \E table \in Tables, kwargs \in Kwargs,
          paths \in {<<>>, <<PathEntry("image", FALSE, <<"img_", "{id}">>)>>},
          transforms \in {NoTransform, List(<<ImageTransform("read", "image")>>)} :
           heap = [kind |-> "samples",
                   dataset |-> ImageDataset(table, Columns, paths, <<>>, transforms, kwargs),
                   iterator |-> SampleIterator_init,
                   nexts |-> -1, calls |-> 0]
    /\ last = Idle

IterSamples ==
    /\ Ready("samples")
    /\ heap' = [heap EXCEPT !.iterator = SampleIterator_iter(@), !.nexts = 0, !.calls = 0]
    /\ last' = Called("iter", [index |-> 0], Outcome("none", None))

NextSample ==
    /\ Ready("samples")
    /\ heap.calls < MaxNexts
    /\ LET r == SampleIterator_next(heap.iterator, heap.dataset)
       IN  /\ heap' = [heap EXCEPT !.iterator = r.self,
                                   !.nexts = IF @ < 0 THEN @ ELSE @ + 1,
                                   !.calls = @ + 1]
           /\ last' = Called("next", [index |-> r.index], Outcome(r.err, r.sample))

NextSamples == IterSamples \/ NextSample \/ Drop

SpecSamples == InitSamples /\ [][NextSamples]_vars

(***************************************************************************)
(* The whole library: any of the three kinds of caller.                    *)
(***************************************************************************)
InitAll == Init \/ InitField \/ InitMaps

NextAll == Next \/ NextField \/ NextMaps

SpecAll == InitAll /\ [][NextAll]_vars

(***************************************************************************)
(* Properties.                                                             *)
(***************************************************************************)
IsTensor(t) == t # None /\ t # NotATensor

NonzeroCount(t) == Cardinality({i \in 1..Len(t.data) : t.data[i] # Num(0)})

ValidReductions == {"none", "mean", "sum"}

\* The masked mean of a direct reduce_loss call whose mask broadcasts to the loss.
MaskedMeanCall ==
    /\ heap.kind = "images"
    /\ last.op = "reduce_loss"
    /\ last.args.reduction = "mean"
    /\ IsTensor(last.pre.mask)
    /\ CanExpand(last.pre.mask, last.pre.input.shape)

SameShapeMaskCall ==
    /\ heap.kind = "images"
    /\ last.op \in {"ssd_loss", "mse_loss", "lcc_loss"}
    /\ last.pre.input.shape = last.pre.target.shape
    /\ IsTensor(last.pre.mask)
    /\ last.pre.mask.shape = last.pre.input.shape
    /\ last.args.reduction \in ValidReductions \cup {"default"}
    /\ (last.args.norm = None \/ squeeze(last.args.norm).shape = <<>>)

\* C10 as stated: ssd_loss, mse_loss and lcc_loss accept every mask that has the
\* shape of the input: the call does not raise, and the per-point loss is
\* multiplied elementwise by the mask before the reduction.
C10_Original ==
    SameShapeMaskCall =>
        /\ last.err = "none"
        /\ (last.op = "ssd_loss" /\ last.args.reduction = "none" /\ last.args.norm = None)
            => last.out = tmul(square(tsub(last.pre.input, last.pre.target)),
                               last.pre.mask)

FieldOps ==
    {"grad_loss", "bending_loss", "curvature_loss", "diffusion_loss", "divergence_loss",
     "elasticity_loss", "total_variation_loss"}

FieldCall == heap.kind = "field" /\ last.op \in FieldOps

\* A call on a field of the dense shape (N, D, Y, X) with D = 2.
DenseCall(op) == heap.kind = "field" /\ last.op = op /\ last.pre.u.shape = DenseShape

\* C2: every smoothness loss on a field of rank less than 4 returns exactly the
\* scalar zero for reduction "mean" and "sum" and raises NotImplementedError for
\* reduction "none", in both cases without taking any spatial derivative.
C2_LinearTransform ==
    (FieldCall /\ Len(last.pre.u.shape) < 4) =>
        /\ last.args.reduction \in {"mean", "sum"} =>
               /\ last.err = "none"
               /\ last.out = Scalar(Num(0))
               /\ last.steps = <<>>
        /\ last.args.reduction = "none" =>
               /\ last.err = "NotImplementedError"
               /\ last.out = None
               /\ last.steps = <<>>

\* elasticity_loss on a rank-2 field with reduction "none" has raised.
C2_Witness ==
    /\ heap.kind = "field"
    /\ last.op = "elasticity_loss"
    /\ Len(last.pre.u.shape) = 2
    /\ last.args.reduction = "none"
    /\ last.err = "NotImplementedError"

\* The squared Frobenius norm of the Hessian of channel c of u.
HessianNorm(u, c) ==
    LET D == u.shape[2]
    IN  SumSeq([ab \in 1..(D * D) |->
            LET d == u.jet[SortKey(<<(ab - 1) \div D + 1, ((ab - 1) % D) + 1>>)][c]
            IN  Num(d * d)])

\* C3 as stated: bending_loss on a dense field is, at each point and channel
\* before the reduction, the squared Frobenius norm of the Hessian: the sum of
\* the squared unmixed second derivatives plus twice the sum of the squared
\* unique mixed ones.
C3_Original ==
    (DenseCall("bending_loss") /\ last.args.reduction = "none") =>
        /\ last.err = "none"
        /\ last.out.shape = DenseShape
        /\ \A i \in 1..Prod(DenseShape) :
               last.out.data[i] = HessianNorm(last.pre.u, channel(DenseShape, i))

\* The divergence of u (the same at every grid point): the sum over the axes a
\* of the derivative of component a along axis a.
Divergence(u) == SumSeq([a \in 1..u.shape[2] |-> Num(u.jet[<<a>>][a])])

\* C4 as stated: for every dense field whose divergence is zero at every grid
\* point, divergence_loss returns 0 for every q and for reduction "mean" and
\* "sum".
C4_Original ==
    (/\ DenseCall("divergence_loss")
     /\ Divergence(last.pre.u) = Num(0)
     /\ last.args.reduction \in {"mean", "sum"}) =>
        /\ last.err = "none"
        /\ last.out = Scalar(Num(0))

\* The per-point sum over the derivative keys that grad_loss raises to q.
PointSum(u, p) ==
    LET derivs == spatial_derivatives(u, keys_all(u.shape[2], 1))
    IN  SumTensors([k \in 1..Len(derivs) |-> grad_power(derivs[k], p)])

GradCall ==
    DenseCall("grad_loss") /\ last.args.reduction \in ValidReductions

\* C7 as stated: grad_loss called without q applies the outer power 1 / p to the
\* per-point sum; an explicit q = 0 takes its absolute value.
C7_Original ==
    GradCall =>
        /\ (last.args.q = Omitted /\ last.args.p # 0) =>
               /\ last.err = "none"
               /\ last.out = reduce_loss(tpow(PointSum(last.pre.u, last.args.p),
                                              Rat(1, last.args.p)),
                                         last.args.reduction, None).out
        /\ last.args.q = Num(0) =>
               /\ last.err = "none"
               /\ last.out = reduce_loss(tabs(PointSum(last.pre.u, last.args.p)),
                                         last.args.reduction, None).out

\* C7 as the code has it: grad_loss called without q leaves the per-point sum
\* as it is (q = 1); the outer power 1 / p is applied only for an explicit
\* q = None, which fails with ZeroDivisionError when p = 0; an explicit q = 0
\* takes the absolute value of the sum.
C7_OuterPower ==
    GradCall =>
        /\ last.args.q = Omitted =>
               /\ last.err = "none"
               /\ last.out = reduce_loss(PointSum(last.pre.u, last.args.p),
                                         last.args.reduction, None).out
        /\ (last.args.q = PyNone /\ last.args.p # 0) =>
               /\ last.err = "none"
               /\ last.out = reduce_loss(tpow(PointSum(last.pre.u, last.args.p),
                                              Rat(1, last.args.p)),
                                         last.args.reduction, None).out
        /\ (last.args.q = PyNone /\ last.args.p = 0) => last.err = "ZeroDivisionError"
        /\ last.args.q = Num(0) =>
               /\ last.err = "none"
               /\ last.out = reduce_loss(tabs(PointSum(last.pre.u, last.args.p)),
                                         last.args.reduction, None).out

\* grad_loss without q and with p = 2 on a field whose per-point sum of squares
\* differs from its square root.
C7_Witness ==
    /\ GradCall
    /\ last.args.q = Omitted
    /\ last.args.p = 2
    /\ last.args.reduction = "none"
    /\ last.err = "none"
    /\ last.out # tpow(PointSum(last.pre.u, 2), Rat(1, 2))

ConsistencyCall == heap.kind = "maps" /\ last.op = "inverse_consistency_loss"

\* The per-point error norms of the last call: what it returns for "none".
ErrorNorms ==
    inverse_consistency_loss(last.pre.forward, last.pre.inverse, last.pre.grid,
                             last.args.margin, last.pre.mask, last.args.units, "none").out

\* C5 as stated: for reduction "sum" and "mean" inverse_consistency_loss returns
\* the sum of the per-point error norms divided by a count: the number of
\* nonzero mask entries whenever a mask was given, the number of error points
\* only when no mask was given.
C5_Original ==
    (ConsistencyCall /\ last.err = "none" /\ last.args.reduction \in {"mean", "sum"}) =>
        last.out = Scalar(RDiv(SumSeq(ErrorNorms.data),
                               Num(IF last.pre.mask # None THEN NonzeroCount(last.pre.mask)
                                   ELSE numel(ErrorNorms))))

\* The grid of the last call, and the number of points left on an axis of n
\* points after m points were dropped at each side.
CallGrid ==
    IF last.pre.grid # NoGrid THEN last.pre.grid
    ELSE IF last.pre.forward.dense THEN Grid(last.pre.forward.shape)
    ELSE Grid(last.pre.inverse.shape)

Kept(n, m) == IF n - 2 * m < 0 THEN 0 ELSE n - 2 * m

\* C6 as stated: inverse_consistency_loss raises ValueError for every float
\* margin below 0 or not below 1; an int margin m >= 0 drops m grid points at
\* each side of every axis, a float margin f in [0, 1) drops int(f * n) points
\* at each side of an axis of n points.
C6_Original ==
    (ConsistencyCall /\ last.why \notin {"forward", "grid", "mask"}) =>
        LET margin == last.args.margin
            low == RGreater(Num(0), margin.v)
            high == ~RGreater(Num(1), margin.v)
            Y == CallGrid.shape[1]
            X == CallGrid.shape[2]
            m == IF margin.float THEN <<trunc(RMul(margin.v, Num(Y))),
                                        trunc(RMul(margin.v, Num(X)))>>
                 ELSE <<trunc(margin.v), trunc(margin.v)>>
        IN  /\ (margin.float /\ (low \/ high)) => last.err = "ValueError"
            /\ (~low /\ (margin.float => ~high)) => last.err = "none"
            /\ (~low /\ (margin.float => ~high) /\ last.args.reduction = "none") =>
                   last.out.shape = <<last.pre.forward.N, Kept(Y, m[1]), Kept(X, m[2])>>

AnyCall == last.op # "init"

ImageCall == heap.kind = "images" /\ AnyCall

StepsBefore ==
    LET masked == IF heap.kind = "field" THEN FALSE ELSE last.pre.mask # None
        first == IF last.op = "lcc_loss" THEN <<"lcc">> ELSE <<"square">>
        mult == IF masked THEN <<"mask">> ELSE <<>>
        red == last.args.reduction # "none"
    IN  CASE last.why \in {"input", "forward", "grid", "u", "p"} -> <<>>
          [] last.why = "mask" ->
                IF last.op = "masked_loss" THEN <<>>
                ELSE IF last.op = "reduce_loss" THEN <<"sum">>
                ELSE IF last.op = "inverse_consistency_loss" THEN <<"transform">>
                ELSE first
          [] last.why = "reduction" ->
                IF last.op = "reduce_loss" THEN <<>>
                ELSE IF heap.kind = "images" THEN first \o mult
                ELSE IF Len(last.pre.u.shape) < 4 THEN <<>>
                ELSE <<"derivatives", "sum">>
          [] last.why = "norm" -> first \o mult \o (IF red THEN <<"reduce">> ELSE <<>>)
          [] last.why = "margin" -> <<"transform">> \o mult
          [] last.why = "q" -> <<"derivatives", "sum">>

MaskedCall ==
    /\ ImageCall
    /\ last.op = "masked_loss"
    /\ last.pre.mask # NotATensor

\* The three conditions masked_loss tests on the shape of a mask.
MaskShapeAccepted(mask, loss) ==
    /\ mask.shape[1] = 1 \/ mask.shape[1] = loss.shape[1]
    /\ mask.shape[2] = 1 \/ mask.shape[2] = loss.shape[1]
    /\ SubSeq(mask.shape, 3, Len(mask.shape)) = SubSeq(loss.shape, 3, Len(loss.shape))

\* C11 as stated: masked_loss returns loss itself when the mask is absent;
\* otherwise it returns the elementwise product of loss and mask exactly when
\* the mask's batch dim is 1 or loss.shape[0], its channel dim is 1 or
\* loss.shape[0] and its spatial dims are those of loss, and in every other
\* case it raises a shape error and returns no product.
C11_Original ==
    MaskedCall =>
        /\ last.pre.mask = None =>
               /\ last.err = "none"
               /\ last.self
               /\ last.out = last.pre.input
        /\ (last.pre.mask # None /\ MaskShapeAccepted(last.pre.mask, last.pre.input)) =>
               /\ last.err = "none"
               /\ last.out = tmul(last.pre.input,
                                  expand_as(last.pre.mask, last.pre.input.shape))
        /\ (last.pre.mask # None /\ ~MaskShapeAccepted(last.pre.mask, last.pre.input)) =>
               /\ last.err = "ValueError"
               /\ last.out = None

\* A direct call of reduce_loss without a mask.
UnmaskedReduceCall ==
    /\ ImageCall
    /\ last.op = "reduce_loss"
    /\ last.pre.mask = None

\* C12: reduce_loss without a mask returns the total sum of the elements for
\* "sum", their arithmetic mean for "mean", and for "none" the very tensor it
\* was given, with its values unchanged.
C12_Unmasked ==
    UnmaskedReduceCall =>
        /\ last.args.reduction = "sum" =>
               /\ last.err = "none"
               /\ last.out = Scalar(SumSeq(last.pre.input.data))
        /\ last.args.reduction = "mean" =>
               /\ last.err = "none"
               /\ last.out = Scalar(RDiv(SumSeq(last.pre.input.data),
                                         Num(Len(last.pre.input.data))))
        /\ last.args.reduction = "none" =>
               /\ last.err = "none"
               /\ last.self
               /\ last.out = last.pre.input
               /\ heap.input = last.pre.input

\* An unmasked mean over two elements whose sum is not zero: mean and sum
\* differ.
C12_Witness ==
    /\ UnmaskedReduceCall
    /\ last.args.reduction = "mean"
    /\ Len(last.pre.input.data) = 2
    /\ last.err = "none"
    /\ last.out # Scalar(SumSeq(last.pre.input.data))

\* A call of ssd_loss or mse_loss with a norm, whose masked and reduced loss was
\* computed without error.
NormCall ==
    /\ ImageCall
    /\ last.op \in {"ssd_loss", "mse_loss"}
    /\ last.args.norm # None
    /\ last.why \notin {"input", "mask", "reduction"}

\* The masked and reduced loss of the last call: what it returns without norm.
ReducedLoss ==
    ssd_loss(last.pre.input, last.pre.target, last.pre.mask, None,
             IF last.args.reduction # "default" THEN last.args.reduction
             ELSE IF last.op = "ssd_loss" THEN "sum" ELSE "mean").out

\* C13: ssd_loss divides the masked and reduced loss by norm exactly when norm
\* is a positive scalar; a norm <= 0 leaves the loss unchanged and raises no
\* error; a norm that does not squeeze to a 0-dimensional scalar raises
\* ValueError.  For single-element tensors with the values 1 and 0 the result
\* is 1 with the default reduction "sum", 1 with "mean" and 1/2 with norm 2.
C13_Norm ==
    /\ NormCall =>
        LET norm == last.args.norm
            scalar == \A k \in 1..Len(norm.shape) : norm.shape[k] = 1
        IN  /\ ~scalar => last.err = "ValueError" /\ last.why = "norm"
            /\ (scalar /\ RGreater(norm.data[1], Num(0))) =>
                   /\ last.err = "none"
                   /\ last.out = tdiv(ReducedLoss, norm.data[1])
            /\ (scalar /\ ~RGreater(norm.data[1], Num(0))) =>
                   /\ last.err = "none"
                   /\ last.out = ReducedLoss
    /\ (/\ ImageCall
        /\ last.op = "ssd_loss"
        /\ last.pre.input = Filled(<<1, 1, 1>>, 1)
        /\ last.pre.target = Filled(<<1, 1, 1>>, 0)
        /\ last.pre.mask = None
        /\ last.args.reduction \in {"default", "mean"}) =>
            /\ last.args.norm = None => last.out = Scalar(Num(1))
            /\ last.args.norm = Scalar(Num(2)) => last.out = Scalar(Rat(1, 2))

\* ssd_loss of the tensors [1] and [0] with norm 2 has returned 1/2.
C13_Witness ==
    /\ ImageCall
    /\ last.op = "ssd_loss"
    /\ last.pre.input = Filled(<<1, 1, 1>>, 1)
    /\ last.pre.target = Filled(<<1, 1, 1>>, 0)
    /\ last.args.reduction = "default"
    /\ last.args.norm = Scalar(Num(2))
    /\ last.out = Scalar(Rat(1, 2))

\* A call of inverse_consistency_loss that returned, for a forward and an
\* inverse translation that cancel, with a valid reduction and at least one
\* error point left after the margin was trimmed.
ExactInverseCall ==
    /\ ConsistencyCall
    /\ last.err = "none"
    /\ last.args.reduction \in ValidReductions
    /\ \A k \in 1..Len(last.pre.forward.t) :
           RAdd(last.pre.forward.t[k], last.pre.inverse.t[k]) = Num(0)
    /\ numel(ErrorNorms) > 0

AllZero(t) == \A i \in 1..Len(t.data) : t.data[i] = Num(0)

SelfDiceCall ==
    /\ heap.kind = "dice"
    /\ last.op = "dice_score"
    /\ last.pre.input # NotATensor
    /\ Len(last.pre.input.shape) >= 3
    /\ last.pre.target = last.pre.input
    /\ last.pre.weight = None
    /\ \A i \in 1..Len(last.pre.input.data) : last.pre.input.data[i] \in {Num(0), Num(1)}
    /\ \E i \in 1..Len(last.pre.input.data) : last.pre.input.data[i] = Num(1)
    /\ last.args.epsilon = Underflow \/ RGreater(last.args.epsilon, Num(0))
    /\ last.args.reduction \in ValidReductions

\* The (batch, channel) pairs of x whose channel is entirely zero.
ZeroChannels(x) ==
    {k \in 1..(x.shape[1] * x.shape[2]) : dot_channels(x, x, None).data[k] = Num(0)}

\* C15 as stated: dice_score(x, x) is 1 for every nonzero binary x of rank >= 3
\* and every epsilon > 0: every (batch, channel) entry with reduction "none",
\* all-zero channels included, and the scalar with reduction "mean".
C15_Original ==
    SelfDiceCall =>
        /\ last.err = "none"
        /\ last.args.reduction = "none" =>
              /\ last.out.shape = SubSeq(last.pre.input.shape, 1, 2)
              /\ \A k \in 1..Len(last.out.data) : last.out.data[k] = Num(1)
        /\ last.args.reduction = "mean" => last.out = Scalar(Num(1))

\* C15 as the code has it: the same for every epsilon > 0 whose
\* single-precision value is not 0; for an epsilon that underflows to 0 in
\* single precision the entry of an all-zero channel is 0 / 0 = nan, and so
\* is the mean when x has such a channel.
C15_SelfOverlap ==
    SelfDiceCall =>
        LET x == last.pre.input
            nan == IF float32(last.args.epsilon) = Num(0) THEN ZeroChannels(x) ELSE {}
        IN  /\ last.err = "none"
            /\ last.args.reduction = "none" =>
                  /\ last.out.shape = SubSeq(x.shape, 1, 2)
                  /\ \A k \in 1..Len(last.out.data) :
                        last.out.data[k] = IF k \in nan THEN NaN ELSE Num(1)
            /\ last.args.reduction = "mean" =>
                  last.out = Scalar(IF nan # {} THEN NaN ELSE Num(1))

\* dice_score(x, x) with reduction "none" of an x whose first channel is all
\* zero and whose second is not: both entries are 1.
C15_Witness ==
    /\ SelfDiceCall
    /\ last.args.reduction = "none"
    /\ last.args.epsilon = Rat(1, 2)
    /\ 1 \in ZeroChannels(last.pre.input)
    /\ last.out = Tensor(<<1, 2>>, <<Num(1), Num(1)>>)

\* The reference combination of the first-order derivatives of a dense field:
\* at each point the sum over the derivative keys of |d|^p, or of d for p = 0.
ReferenceSum(u, p) ==
    Tensor(u.shape,
           [i \in 1..Prod(u.shape) |->
               Num(LET c == channel(u.shape, i)
                       term(a) == IF p = 0 THEN u.jet[<<a>>][c]
                                  ELSE IPow(Abs(u.jet[<<a>>][c]), p)
                   IN  term(1) + term(2))])

\* C16: for a dense field and every integer p >= 1 grad_loss combines the
\* first-order derivatives at each point as the sum over the derivative keys of
\* |d|^p, whichever of the branches p = 1, even p and odd p computes it, and
\* for p = 0 as the sum of the raw signed derivatives.
C16_GradPower ==
    (GradCall /\ last.args.q \in {Omitted, Num(1)}) =>
        /\ last.err = "none"
        /\ last.out = reduce_loss(ReferenceSum(last.pre.u, last.args.p),
                                  last.args.reduction, None).out

\* grad_loss with the odd p = 3 on a field with a negative derivative: the
\* first point's sum is |-2|^3 + |1|^3 = 9.
C16_Witness ==
    /\ GradCall
    /\ last.args.q = Num(1)
    /\ last.args.p = 3
    /\ last.args.reduction = "none"
    /\ last.pre.u.jet[<<1>>][1] = -2
    /\ last.pre.u.jet[<<2>>][1] = 1
    /\ last.out.data[1] = Num(9)

\* The modules of a transform value in the order given, nested lists and
\* Sequentials opened up.
RECURSIVE Flat(_)
Flat(t) ==
    IF t.type = "Module" THEN <<t.name>>
    ELSE IF t.items = <<>> THEN <<>>
    ELSE Flat(Head(t.items)) \o Flat(Sequential(Tail(t.items)))

FlatArgs(args) == Flat(List(args))

\* The sample x passed through the named modules, first one first.
RECURSIVE InOrder(_, _)
InOrder(names, x) ==
    IF names = <<>> THEN x
    ELSE InOrder(Tail(names), IF Head(names) = "inc" THEN x + 1 ELSE 2 * x)

DatasetCall(op) == heap.kind = "datasets" /\ last.op = op

\* C17: dataset[index] is sample(index) passed through the transforms the
\* dataset was given, at construction or by transform_(), composed in the order
\* given, the first applied first; it is sample(index) itself when there is no
\* transform.
C17_GetItem ==
    DatasetCall("__getitem__") =>
        /\ last.err = "none"
        /\ last.out = InOrder(FlatArgs(last.pre.given[last.args.self]),
                              last.pre.data[last.args.index + 1])

\* Indexing a dataset that was given inc then dbl after its construction:
\* sample 3 becomes (3 + 1) * 2 = 8, not 3 * 2 + 1.
C17_Witness ==
    /\ DatasetCall("__getitem__")
    /\ last.pre.given[last.args.self] = <<Module("inc"), Module("dbl")>>
    /\ last.args.index = 0
    /\ last.out = 8

AllNone(args) == \A k \in 1..Len(args) : args[k] = NoTransform

\* The dataset has the transform that the arguments specify.
HasTransform(obj, args) ==
    /\ Flat(obj._transform) = FlatArgs(args)
    /\ AllNone(args) => obj._transform = NoTransform

\* C18: transform(...) with arguments returns a new dataset with the specified
\* transform and leaves every existing dataset as it was; transform_() sets the
\* transform of the dataset it is called on, returns that dataset and leaves the
\* others as they were; so every dataset has the transform it was given last,
\* at its creation or by transform_() on it.
C18_Transforms ==
    heap.kind = "datasets" =>
        /\ Len(heap.given) = Len(heap.objs)
        /\ \A k \in 1..Len(heap.objs) :
              Flat(heap.objs[k]._transform) = FlatArgs(heap.given[k])
        /\ (last.op = "transform" /\ last.args.args # <<>>) =>
              /\ last.out = Len(last.pre.objs) + 1
              /\ Len(heap.objs) = last.out
              /\ SubSeq(heap.objs, 1, Len(last.pre.objs)) = last.pre.objs
              /\ HasTransform(heap.objs[last.out], last.args.args)
        /\ last.op = "transform_" =>
              /\ last.out = last.args.self
              /\ Len(heap.objs) = Len(last.pre.objs)
              /\ \A k \in 1..Len(heap.objs) :
                    k # last.args.self => heap.objs[k] = last.pre.objs[k]
              /\ HasTransform(heap.objs[last.args.self], last.args.args)

\* transform(dbl) on a dataset constructed with inc: the new dataset doubles,
\* the original still increments.
C18_Witness ==
    /\ DatasetCall("transform")
    /\ last.args.args = <<Module("dbl")>>
    /\ last.pre.objs[last.args.self]._transform = Sequential(<<Module("inc")>>)
    /\ heap.objs[last.args.self]._transform = Sequential(<<Module("inc")>>)
    /\ heap.objs[last.out]._transform = Sequential(<<Module("dbl")>>)

\* A call of MetaDataset.sample that returned.
SampleCall == heap.kind = "meta" /\ last.op = "sample" /\ last.err = "none"

\* What the paths entry path stands for by the documentation of paths: the
\* value of the table column of that name if there is one, otherwise the path
\* expanded as a format string.
DocumentedPath(path, self, index) ==
    IF contains(row(self, index), path) THEN row(self, index)[path[1]]
    ELSE format(path, format_args(self, row(self, index)))

\* C19: a paths entry whose value is a string uses the value of a table column
\* if and only if the string is the name of a column of the table, and is
\* expanded as a format template otherwise, whatever the other entries of paths
\* and their order.
C19_Original ==
    SampleCall =>
        \A i \in 1..Len(last.pre.dataset.paths) :
            LET entry == last.pre.dataset.paths[i]
                path == DocumentedPath(entry.path, last.pre.dataset, last.args.index)
            IN  (~entry.callable /\ path # <<>>) =>
                    /\ entry.name \in DOMAIN last.out.data
                    /\ last.out.data[entry.name] = path

\* A call of a loss function with a reduction string other than "none",
\* "mean" and "sum".
InvalidReductionCall ==
    /\ AnyCall
    /\ heap.kind \in {"images", "field", "maps"}
    /\ last.op # "masked_loss"
    /\ last.args.reduction \notin ValidReductions \cup {"default"}

\* C20: every loss function that takes a reduction fails when the reduction is
\* not one of none, mean and sum, with ValueError when it fails over the
\* reduction, whatever the input: the smoothness losses of a field of rank
\* less than 4 and inverse_consistency_loss included.
C20_Original ==
    InvalidReductionCall =>
        /\ last.err # "none"
        /\ last.why = "reduction" => last.err = "ValueError"

\* The transforms that the configuration asks for: for each configured image
\* in order, a read-image transform and then the transforms configured for it.
RECURSIVE ConfiguredTransforms(_, _)
ConfiguredTransforms(config, i) ==
    IF i > Len(config.images) THEN <<>>
    ELSE LET key == config.images[i].name
             ops == IF key \in DOMAIN config.transforms.dict
                    THEN config.transforms.dict[key] ELSE <<>>
             all == IF ops # <<>> /\ ops[1] = "read" THEN ops ELSE <<"read">> \o ops
         IN  [k \in 1..Len(all) |-> ImageTransform(all[k], key)]
             \o ConfiguredTransforms(config, i + 1)

\* from_config has returned a dataset for a configuration with images.
ConfiguredDataset ==
    heap.kind = "config" /\ heap.dataset.made /\ heap.config.images # <<>>

\* C21: the dataset that ImageDataset.from_config returns has as its transform
\* the composition, over the configured images in order, of a read-image
\* transform and the image's configured transforms, and indexing it returns
\* samples to which these transforms have been applied.
C21_Original ==
    ConfiguredDataset =>
        /\ heap.dataset._transform.type = "Sequential"
        /\ heap.dataset._transform.items = ConfiguredTransforms(heap.config, 1)
        /\ (last.op = "__getitem__" /\ last.err = "none") =>
              last.out.data =
                  call_images(ConfiguredTransforms(heap.config, 1),
                              MetaDataset_sample(heap.dataset, last.args.index).data)

\* A call of JoinDataset.sample.
JoinCall == heap.kind = "join" /\ last.op = "sample"

\* The dicts that the joined datasets give for the index of the call.
JoinedDicts ==
    [i \in 1..Len(heap.dataset.datasets) |->
        as_dict(i - 1, heap.dataset.datasets[i][last.args.index + 1])]

\* Two of the joined datasets give different values for the same key.
Ambiguous ==
    \E i, j \in 1..Len(JoinedDicts) :
        \E key \in DOMAIN JoinedDicts[i] \cap DOMAIN JoinedDicts[j] :
            JoinedDicts[i][key] # JoinedDicts[j][key]

\* C22: JoinDataset.sample(index) raises ValueError whenever two of the joined
\* datasets give different values for the same key, whatever the order of the
\* datasets and whether or not one of the values is None, and returns the
\* union of the datasets' dict entries otherwise.
C22_Original ==
    JoinCall =>
        IF Ambiguous THEN last.err = "ValueError"
        ELSE /\ last.err = "none"
             /\ DOMAIN last.out = UNION {DOMAIN JoinedDicts[i] : i \in 1..Len(JoinedDicts)}
             /\ \A i \in 1..Len(JoinedDicts) :
                   \A key \in DOMAIN JoinedDicts[i] : last.out[key] = JoinedDicts[i][key]

\* A call of next() on the object that samples() returned.
NextCall == heap.kind = "samples" /\ last.op = "next"

\* C23: the k-th next() after the most recent iter() returns the untransformed
\* sample(k - 1) for k <= len(dataset) and raises StopIteration for every later
\* call; every next() call, in any sequence of iter() and next() calls, returns
\* a sample whose index lies in 0..len(dataset) - 1 or raises StopIteration,
\* and the transform of the dataset is never applied.
C23_Original ==
    NextCall =>
        LET n == Len(heap.dataset.table)
            k == heap.nexts
        IN  /\ (k >= 1 /\ k <= n) =>
                  /\ last.err = "none"
                  /\ last.out = MetaDataset_sample(heap.dataset, k - 1)
            /\ k > n => last.err = "StopIteration"
            /\ last.err \in {"none", "StopIteration"}
            /\ last.err = "none" =>
                  /\ last.args.index \in 0..(n - 1)
                  /\ last.out = MetaDataset_sample(heap.dataset, last.args.index)

====
